---- MODULE Spec2Model ----
(***************************************************************************)
(* Verification model of the SQL agent chatbot.                            *)
(*                                                                         *)
(*   Phase_1/tools.py   SQLExecutor._safe_sql / execute_query  (SpecGate)  *)
(*   Phase_2/langraph_main.py + agents/*.py + main.py          (Spec)      *)
(*   Phase_2/agents/error_analyzer.py in the retry loop        (SpecRetry) *)
(*   Phase_1/tools.py   SQLExecutor._handle_query_result   (SpecNormalize) *)
(*   Phase_2 graph runs under weak fairness of the invoke      (SpecFair)  *)
(*   Phase_1/tools.py   QueryLogger.log_query_execution        (SpecLog)   *)
(*                                                                         *)
(* SQL text is kept as TLA+ strings and handled character by character,    *)
(* the way the Python string and regular-expression calls handle it.       *)
(***************************************************************************)
EXTENDS Integers, Sequences, FiniteSets, TLC

\* ------------------------------------------------------------------------
\* Bounds of the model
\* ------------------------------------------------------------------------
MaxTokens == 3      \* tokens concatenated into one SQL text given to the gate
MaxQuestions == 1   \* questions asked in one chat session
MaxRows == 21       \* rows of a raw result given to the result formatter
MaxArity == 2       \* values in one row of a raw result
MaxLogCalls == 53   \* QueryLogger.log_query_execution calls in one session

\* ------------------------------------------------------------------------
\* State
\* ------------------------------------------------------------------------
VARIABLES
    \* Phase_1 SQLExecutor
    gate_pc,        \* "idle", "call": execute_query about to run, "returned"
    gate_query,     \* the argument of execute_query
    gate_return,    \* the string execute_query returned
    db_run,         \* the SQL texts passed to self.db.run, in order
    norm_pc,        \* "idle", "call": _handle_query_result about to run, "returned"
    norm_shape,     \* the type of the raw result: "list" or "str"
    norm_result,    \* the raw result when it is a list: its row tuples
    norm_text,      \* the raw result when it is a str
    norm_origin,    \* the driver rows a str raw result is the str() of
    norm_query,     \* the query the result belongs to
    norm_tabulate,  \* whether df.to_markdown finds its tabulate dependency
    norm_return,    \* the string _handle_query_result returned
    \* Phase_1 QueryLogger
    query_logs,     \* st.session_state.query_logs: [present, items]
    log_calls,      \* log_query_execution calls made so far
    \* Phase_2 graph
    pc,             \* "idle", "START", the node about to run, "END", "raised"
    invocation,     \* "none", "initial" (run_initial_pipeline) or "resume"
    state,          \* the AgentState dict threaded through the nodes
    visited,        \* the nodes run so far in this graph.invoke
    calls,          \* external calls of this question: <<call site, "llm" | "db">>
    exchanges,      \* what the table selector and the query generator sent to
                    \* the completion service in those calls, and what came back
    db_executed,    \* SQL texts passed to connection.execute, in order
    \* Phase_2 st.session_state
    messages,               \* [none, items]
    db_connected,           \* "True", "False" or None
    new_prompt,             \* the submitted prompt or None
    current_graph_state,    \* the stored graph state: [none, st]
    asked                   \* questions submitted so far

norm_vars ==
    <<norm_pc, norm_shape, norm_result, norm_text, norm_origin, norm_query,
      norm_tabulate, norm_return>>
log_vars == <<query_logs, log_calls>>
gate_vars == <<gate_pc, gate_query, gate_return, db_run, norm_vars, log_vars>>
graph_vars == <<pc, invocation, state, visited, calls, exchanges, db_executed>>
session_vars == <<messages, db_connected, new_prompt, current_graph_state, asked>>
vars == <<gate_vars, graph_vars, session_vars>>

\* ------------------------------------------------------------------------
\* Python str primitives
\* ------------------------------------------------------------------------
None == "None"

Ch(s, i) == SubSeq(s, i, i)

UpperAlpha == "ABCDEFGHIJKLMNOPQRSTUVWXYZ"
LowerAlpha == "abcdefghijklmnopqrstuvwxyz"
Digits == "0123456789"

CharsOf(alphabet) == {Ch(alphabet, i) : i \in 1..Len(alphabet)}

UpperSet == CharsOf(UpperAlpha)
LowerSet == CharsOf(LowerAlpha)
DigitSet == CharsOf(Digits)
SpaceSet == {" ", "\t", "\n", "\r"}
WordSet == UpperSet \cup LowerSet \cup DigitSet \cup {"_"}

ToLower == [c \in UpperSet |-> Ch(LowerAlpha, CHOOSE i \in 1..26 : Ch(UpperAlpha, i) = c)]
ToUpper == [c \in LowerSet |-> Ch(UpperAlpha, CHOOSE i \in 1..26 : Ch(LowerAlpha, i) = c)]

IsSpace(c) == c \in SpaceSet
IsWordChar(c) == c \in WordSet

LowerChar(c) == IF c \in UpperSet THEN ToLower[c] ELSE c
UpperChar(c) == IF c \in LowerSet THEN ToUpper[c] ELSE c

RECURSIVE lower(_)
lower(s) ==
    IF s = "" THEN ""
    ELSE IF Len(s) = 1 THEN LowerChar(Ch(s, 1))
    ELSE lower(SubSeq(s, 1, Len(s) \div 2))
            \o lower(SubSeq(s, (Len(s) \div 2) + 1, Len(s)))

RECURSIVE upper(_)
upper(s) ==
    IF s = "" THEN ""
    ELSE IF Len(s) = 1 THEN UpperChar(Ch(s, 1))
    ELSE upper(SubSeq(s, 1, Len(s) \div 2))
            \o upper(SubSeq(s, (Len(s) \div 2) + 1, Len(s)))

RECURSIVE lstrip(_)
lstrip(s) == IF s # "" /\ IsSpace(Head(s)) THEN lstrip(Tail(s)) ELSE s

RECURSIVE rstrip(_)
rstrip(s) ==
    IF s # "" /\ IsSpace(Ch(s, Len(s))) THEN rstrip(SubSeq(s, 1, Len(s) - 1)) ELSE s

strip(s) == rstrip(lstrip(s))

\* str.rstrip(";") removes every trailing semicolon
RECURSIVE rstrip_semicolon(_)
rstrip_semicolon(s) ==
    IF s # "" /\ Ch(s, Len(s)) = ";"
    THEN rstrip_semicolon(SubSeq(s, 1, Len(s) - 1))
    ELSE s

count(s, c) == Cardinality({i \in 1..Len(s) : Ch(s, i) = c})

startswith(s, p) == Len(s) >= Len(p) /\ SubSeq(s, 1, Len(p)) = p
endswith(s, p) == Len(s) >= Len(p) /\ SubSeq(s, Len(s) - Len(p) + 1, Len(s)) = p

\* the Python test  p in s
contains(s, p) ==
    \E i \in 1..(Len(s) - Len(p) + 1) : SubSeq(s, i, i + Len(p) - 1) = p

\* regex \b at the gap before character i (1 <= i <= Len(s) + 1)
WordBoundary(s, i) ==
    LET before == i > 1 /\ IsWordChar(Ch(s, i - 1))
        after == i <= Len(s) /\ IsWordChar(Ch(s, i))
    IN before # after

AllSpace(s) == \A i \in 1..Len(s) : IsSpace(Ch(s, i))
AllDigits(s) == \A i \in 1..Len(s) : Ch(s, i) \in DigitSet

\* str(n) for a non-negative integer
RECURSIVE str_int(_)
str_int(n) ==
    IF n < 10 THEN Ch(Digits, n + 1)
    ELSE str_int(n \div 10) \o Ch(Digits, (n % 10) + 1)

\* ------------------------------------------------------------------------
\* Phase_1/tools.py : SQLExecutor
\* ------------------------------------------------------------------------
MAX_QUERY_RESULTS == 10

DenyWords ==
    {"insert", "update", "delete", "alter", "drop", "create", "replace",
     "truncate", "grant", "revoke"}

\* deny_re compiled without re.I: only the upper-case spelling matches
deny_re_case_sensitive(s) ==
    \E i \in 1..Len(s) :
        /\ WordBoundary(s, i)
        /\ \E w \in DenyWords :
            /\ i + Len(w) - 1 <= Len(s)
            /\ SubSeq(s, i, i + Len(w) - 1) = upper(w)
            /\ WordBoundary(s, i + Len(w))

\* self.deny_re.search(s):  \b(INSERT|...|REVOKE)\b  with re.I
deny_re(s) ==
    LET ls == lower(s)
    IN  \E i \in 1..Len(s) :
            /\ WordBoundary(s, i)
            /\ \E w \in DenyWords :
                /\ i + Len(w) - 1 <= Len(s)
                /\ SubSeq(ls, i, i + Len(w) - 1) = w
                /\ WordBoundary(s, i + Len(w))

\*  \s*;?\s*$
LimitTailEnd(u) ==
    /\ \A i \in 1..Len(u) : IsSpace(Ch(u, i)) \/ Ch(u, i) = ";"
    /\ count(u, ";") <= 1

\*  \s+\d+(\s*,\s*\d+)?\s*;?\s*$
LimitTailCount(r) ==
    LET \*  (\s*,\s*\d+)?\s*;?\s*$
        LimitTailOffset(t) ==
            \/ LimitTailEnd(t)
            \/ \E c \in 1..Len(t) :
                /\ Ch(t, c) = ","
                /\ AllSpace(SubSeq(t, 1, c - 1))
                /\ \E e \in c..Len(t) :
                    /\ AllSpace(SubSeq(t, c + 1, e))
                    /\ \E f \in (e + 1)..Len(t) :
                        /\ AllDigits(SubSeq(t, e + 1, f))
                        /\ LimitTailEnd(SubSeq(t, f + 1, Len(t)))
    IN  \E a \in 1..Len(r) :
            /\ AllSpace(SubSeq(r, 1, a))
            /\ \E b \in (a + 1)..Len(r) :
                /\ AllDigits(SubSeq(r, a + 1, b))
                /\ LimitTailOffset(SubSeq(r, b + 1, Len(r)))

\* has_limit_tail_re compiled without the i flag: only "limit" matches
has_limit_tail_re_case_sensitive(s) ==
    \E i \in 1..(Len(s) - 4) :
        /\ WordBoundary(s, i)
        /\ SubSeq(s, i, i + 4) = "limit"
        /\ WordBoundary(s, i + 5)
        /\ LimitTailCount(SubSeq(s, i + 5, Len(s)))

\* self.has_limit_tail_re.search(s):  (?is)\blimit\b\s+\d+(\s*,\s*\d+)?\s*;?\s*$
has_limit_tail_re(s) ==
    LET ls == lower(s)
    IN  \E i \in 1..(Len(s) - 4) :
            /\ WordBoundary(s, i)
            /\ SubSeq(ls, i, i + 4) = "limit"
            /\ WordBoundary(s, i + 5)
            /\ LimitTailCount(SubSeq(s, i + 5, Len(s)))

ErrMultipleStatements == "Error: multiple statements are not allowed."
ErrOnlySelect == "Error: only SELECT statements are allowed."
ErrDmlDdl == "Error: DML/DDL detected. Only read-only queries are permitted."

no_limit_patterns ==
    {"information_schema.tables", "sqlite_master", "pg_tables", "count(*)",
     "group by", "having"}

\* the exemption test on the text as written, without .lower()
should_add_limit_case_sensitive(q) ==
    ~ \E pattern \in no_limit_patterns : contains(q, pattern)

should_add_limit(q) ==
    LET lq == lower(q)
    IN  ~ \E pattern \in no_limit_patterns : contains(lq, pattern)

\* the deny-keyword test placed before the read-only test
safe_sql_deny_first(raw, max_results) ==
    LET q1 == strip(raw)
        q2 == strip(rstrip_semicolon(q1))
    IN  IF \/ count(q1, ";") > 1
           \/ (endswith(q1, ";") /\ contains(SubSeq(q1, 1, Len(q1) - 1), ";"))
        THEN ErrMultipleStatements
        ELSE IF deny_re(q2)
        THEN ErrDmlDdl
        ELSE IF ~ startswith(lower(q2), "select")
        THEN ErrOnlySelect
        ELSE IF ~ has_limit_tail_re(q2) /\ should_add_limit(q2)
        THEN q2 \o " LIMIT " \o str_int(max_results)
        ELSE q2

safe_sql(raw, max_results) ==
    LET q1 == strip(raw)
        q2 == strip(rstrip_semicolon(q1))
    IN  IF \/ count(q1, ";") > 1
           \/ (endswith(q1, ";") /\ contains(SubSeq(q1, 1, Len(q1) - 1), ";"))
        THEN ErrMultipleStatements
        ELSE IF ~ startswith(lower(q2), "select")
        THEN ErrOnlySelect
        ELSE IF deny_re(q2)
        THEN ErrDmlDdl
        ELSE IF ~ has_limit_tail_re(q2) /\ should_add_limit(q2)
        THEN q2 \o " LIMIT " \o str_int(max_results)
        ELSE q2

\* the test  safe_query.startswith("Error:")  of execute_query
IsViolation(r) == startswith(r, "Error:")

RECURSIVE Concat(_)
Concat(ts) == IF ts = <<>> THEN "" ELSE Head(ts) \o Concat(Tail(ts))

\* SQL texts handed to execute_query: concatenations of at most MaxTokens
\* of these pieces
GateInputs ==
    LET GateVocab ==
            {"select a from t",
             "SELECT COUNT(*) FROM t",
             "select name from sqlite_master",
             "SELECT table_name FROM INFORMATION_SCHEMA.TABLES",
             ";",
             " ",
             " limit 5",
             " LIMIT 5, 2",
             " offset 2",
             " Drop table t",
             " where created_at > 1",
             " group by a",
             " having a > 1",
             "show tables"}
    IN  {Concat(ts) : ts \in UNION {[1..n -> GateVocab] : n \in 1..MaxTokens}}


\* ------------------------------------------------------------------------
\* Phase_2 : the LangGraph pipeline (langraph_main.py, agents/*.py)
\* ------------------------------------------------------------------------
Absent == "<absent>"        \* a key the state dict does not hold

\* Python truthiness of a str-or-None entry
Truthy(v) == v \notin {Absent, None, ""}

\* str.split(sep) for a non-empty separator
RECURSIVE split(_, _)
split(s, sep) ==
    IF \E i \in 1..(Len(s) - Len(sep) + 1) : SubSeq(s, i, i + Len(sep) - 1) = sep
    THEN LET i == CHOOSE i \in 1..(Len(s) - Len(sep) + 1) :
                    /\ SubSeq(s, i, i + Len(sep) - 1) = sep
                    /\ \A j \in 1..(i - 1) : SubSeq(s, j, j + Len(sep) - 1) # sep
         IN  <<SubSeq(s, 1, i - 1)>> \o split(SubSeq(s, i + Len(sep), Len(s)), sep)
    ELSE <<s>>

\* ', '.join(items)
RECURSIVE join(_, _)
join(sep, items) ==
    IF items = <<>> THEN ""
    ELSE IF Len(items) = 1 THEN items[1]
    ELSE items[1] \o sep \o join(sep, Tail(items))

\* the environment: what the database and the completion service answer
Prompts == {"list the orders", "describe the purpose of this database"}
\* a TLA+ string cannot hold the backquote character: "^" stands for it
Backquote == "^"
\* db.get_table_info(): empty, or two tables, one name a prefix of the other
Schemas == {"", "CREATE TABLE abc (y INT)\n\nCREATE TABLE ^ab^ (x INT)"}
LLMExceptions == {"service unavailable"}

KeywordLists == {<<>>, <<"orders">>}
PrunedSchemas == {"CREATE TABLE ab (x INT)"}
LLMQueries == {Absent, "", "SELECT x FROM ab;", "SELECT * FROM ab", "SELECT ab.* FROM ab", "DROP TABLE ab"}
LLMAnswers == {"summary"}
LLMSuggestions == {Absent, "use COUNT(*)"}

NoFinalOutput ==
    [keys |-> {}, sql_query |-> Absent, reasoning |-> Absent,
     response |-> Absent, error |-> Absent]

\* the state dict run_initial_pipeline builds
initial_state(user_prompt) ==
    [user_prompt |-> user_prompt,
     db_connection |-> Absent,
     schema |-> Absent,
     pruned_schema |-> Absent,
     intent_decision |-> Absent,
     intent_keywords |-> <<>>,
     suggested_tables |-> <<>>,
     confirmed_tables |-> <<>>,
     sql_query |-> Absent,
     reasoning |-> Absent,
     results |-> [present |-> FALSE, columns |-> <<>>, rows |-> <<>>],
     final_output |-> NoFinalOutput,
     error |-> Absent,
     needs_user_confirmation |-> FALSE,
     retries |-> 0,
     error_analysis |-> Absent]

NoState == initial_state(Absent)

HasError(st) == Truthy(st.error)

\* langraph_main.py routers
route_start(st) ==
    IF st.confirmed_tables # <<>> THEN "prune_columns" ELSE "connect_to_db"

\* the router sending every decision on to table selection
route_after_intent_always_select(st) == "select_tables"

route_after_intent(st) ==
    IF st.intent_decision = "RELEVANT" THEN "select_tables" ELSE "format_output"

\* the pause skipped when the selector already suggested tables
should_pause_unless_suggested(st) ==
    IF HasError(st) THEN "format_output"
    ELSE IF st.needs_user_confirmation /\ st.suggested_tables = <<>> THEN "END"
    ELSE "prune_columns"

should_pause_for_confirmation(st) ==
    IF HasError(st) THEN "format_output"
    ELSE IF st.needs_user_confirmation THEN "END"
    ELSE "prune_columns"

\* create_graph: the edge taken out of a node, given the state it returned
graph_edge(node, st) ==
    CASE node = "connect_to_db" -> "retrieve_schema"
      [] node = "retrieve_schema" -> "identify_intent"
      [] node = "identify_intent" -> route_after_intent(st)
      [] node = "select_tables" -> should_pause_for_confirmation(st)
      [] node = "prune_columns" -> "generate_sql"
      [] node = "generate_sql" -> "execute_sql"
      [] node = "execute_sql" -> "format_output"
      [] node = "format_output" -> "END"

\* The retry loop of the design (section 4.7): error_analyzer.py is not
\* added to the graph by create_graph, so the edges around it are taken
\* from the design text.
retry_edge(node, st) ==
    CASE node = "generate_sql" ->
            IF HasError(st) THEN "format_output" ELSE "execute_sql"
      [] node = "execute_sql" ->
            IF HasError(st) THEN "analyze_error" ELSE "format_output"
      [] node = "analyze_error" ->
            IF HasError(st) THEN "format_output" ELSE "generate_sql"
      [] node = "format_output" -> "END"

edge(node, st) ==
    IF invocation = "retry" THEN retry_edge(node, st) ELSE graph_edge(node, st)

\* one node ran: record it and move along the edge
Exchange(node, st, new_calls, new_sql, new_exchanges) ==
    /\ pc = node
    /\ pc' = edge(node, st)
    /\ state' = st
    /\ visited' = Append(visited, node)
    /\ calls' = calls \o new_calls
    /\ exchanges' = exchanges \o new_exchanges
    /\ db_executed' = db_executed \o new_sql
    /\ UNCHANGED invocation

Step(node, st, new_calls, new_sql) == Exchange(node, st, new_calls, new_sql, <<>>)

\* the conditional edge out of START
Start ==
    /\ pc = "START"
    /\ pc' = route_start(state)
    /\ UNCHANGED <<invocation, state, visited, calls, exchanges, db_executed>>

\* agents/db_connector.py
connect_to_db ==
    \/ Step("connect_to_db",
            [state EXCEPT !.db_connection = "conn"], <<>>, <<>>)
    \/ \E e \in {"connection refused"} :
        Step("connect_to_db",
             [state EXCEPT !.error = "Failed to connect to database: " \o e], <<>>, <<>>)

\* agents/schema_retriever.py
retrieve_schema ==
    IF HasError(state)
    THEN Step("retrieve_schema", state, <<>>, <<>>)
    ELSE \/ \E schema \in Schemas :
            Step("retrieve_schema",
                 [state EXCEPT !.schema = schema],
                 <<<<"retrieve_schema", "db">>>>, <<>>)
         \/ \E e \in {"schema unavailable"} :
            Step("retrieve_schema",
                 [state EXCEPT !.error = "Failed to retrieve schema: " \o e],
                 <<<<"retrieve_schema", "db">>>>, <<>>)

\* agents/intent_agent.py
identify_intent ==
    IF HasError(state)
    THEN Step("identify_intent", state, <<>>, <<>>)
    ELSE IF ~ Truthy(state.user_prompt) \/ ~ Truthy(state.schema)
    THEN LET st == [state EXCEPT
                      !.error = "Missing user prompt or schema for intent identification."]
         IN  Step("identify_intent", st, <<>>, <<>>)
    ELSE \/ \E decision \in {"RELEVANT", "relevant", "IRRELEVANT", "MAYBE", Absent},
              keywords \in KeywordLists :
            LET st == [state EXCEPT
                         !.intent_decision =
                             upper(IF decision = Absent THEN "IRRELEVANT" ELSE decision),
                         !.intent_keywords = keywords]
            IN  Step("identify_intent", st,
                     <<<<"identify_intent", "llm">>>>, <<>>)
         \/ \E e \in LLMExceptions :
            LET st == [state EXCEPT
                         !.error = "Failed to identify intent: " \o e,
                         !.intent_decision = "IRRELEVANT"]
            IN  Step("identify_intent", st,
                     <<<<"identify_intent", "llm">>>>, <<>>)

\* one call of the completion service: the values the prompt of the call
\* site holds, and the keys of the JSON object that came back (none when
\* the call or the parse raised)
Answered(site, context, fields) ==
    [site |-> site, context |-> context, failed |-> FALSE, fields |-> fields]
Unanswered(site, context) ==
    [site |-> site, context |-> context, failed |-> TRUE, fields |-> {}]

\* the values the f-string of select_tables holds
select_tables_context(st) ==
    <<st.schema, st.user_prompt, join(", ", st.intent_keywords)>>

\* agents/table_selection_agent.py
select_tables ==
    IF HasError(state)
    THEN Step("select_tables", state, <<>>, <<>>)
    ELSE \/ \E suggested \in {Absent, <<>>, <<"ab">>, <<"zz">>} :
            LET st == [state EXCEPT
                         !.suggested_tables =
                             IF suggested = Absent THEN <<>> ELSE suggested,
                         !.needs_user_confirmation = TRUE]
            IN  Exchange("select_tables", st,
                         <<<<"select_tables", "llm">>>>, <<>>,
                         <<Answered("select_tables", select_tables_context(state),
                                    IF suggested = Absent THEN {}
                                    ELSE {"suggested_tables"})>>)
         \/ \E e \in LLMExceptions :
            LET st == [state EXCEPT !.error = "Failed to select tables: " \o e]
            IN  Exchange("select_tables", st,
                         <<<<"select_tables", "llm">>>>, <<>>,
                         <<Unanswered("select_tables", select_tables_context(state))>>)

\* the CREATE TABLE parts of the confirmed tables (column_pruning_agent.py)
RECURSIVE schema_for_pruning(_, _)
schema_for_pruning(parts, tables) ==
    LET table_name == Head(tables)
        hits == {i \in 1..Len(parts) :
                    \/ startswith(strip(parts[i]), Backquote \o table_name \o Backquote)
                    \/ startswith(strip(parts[i]), table_name)}
        first_part == IF hits = {} THEN ""
                      ELSE "CREATE TABLE"
                            \o parts[CHOOSE i \in hits : \A j \in hits : i <= j]
    IN  IF tables = <<>> THEN ""
        ELSE first_part \o schema_for_pruning(parts, Tail(tables))

\* agents/column_pruning_agent.py
prune_columns ==
    IF HasError(state)
    THEN Step("prune_columns", state, <<>>, <<>>)
    ELSE IF schema_for_pruning(split(state.schema, "CREATE TABLE"),
                               state.confirmed_tables) = ""
    THEN Step("prune_columns",
              [state EXCEPT !.error = "Could not find schema for confirmed tables."],
              <<>>, <<>>)
    ELSE \/ \E pruned_schema \in PrunedSchemas :
            Step("prune_columns",
                 [state EXCEPT !.pruned_schema = pruned_schema],
                 <<<<"prune_columns", "llm">>>>, <<>>)
         \/ \E e \in LLMExceptions :
            Step("prune_columns",
                 [state EXCEPT !.error = "Failed to prune columns: " \o e,
                               !.pruned_schema = state.schema],
                 <<<<"prune_columns", "llm">>>>, <<>>)

\* agents/query_generator.py
generate_sql_query_failed(st, e) ==
    [st EXCEPT !.error = "Failed to generate SQL query: " \o e,
               !.sql_query = "No SQL Query Generated.",
               !.reasoning = "No reasoning provided."]

\* the values the f-string of generate_sql_query holds;
\* state.get('pruned_schema', state.get('schema'))
generate_sql_context(st) ==
    <<"mysql", "shop",      \* db_config: its db_type and the database name
      IF st.pruned_schema = Absent THEN st.schema ELSE st.pruned_schema,
      st.user_prompt>>

generate_sql_query ==
    IF HasError(state)
    THEN Step("generate_sql", state, <<>>, <<>>)
    ELSE \/ \E answer \in LLMQueries, reasoning \in {Absent, "because"} :
            LET sql_query == IF answer = Absent THEN "" ELSE answer
                st == [state EXCEPT
                         !.sql_query = sql_query,
                         !.reasoning = IF reasoning = Absent THEN "" ELSE reasoning]
            IN  Exchange("generate_sql",
                         IF sql_query = ""
                         THEN generate_sql_query_failed(st, "LLM failed to generate a SQL query.")
                         ELSE st,
                         <<<<"generate_sql", "llm">>>>, <<>>,
                         <<Answered("generate_sql", generate_sql_context(state),
                                    (IF answer = Absent THEN {} ELSE {"sql_query"}) \cup
                                        (IF reasoning = Absent THEN {} ELSE {"reasoning"}))>>)
         \/ \E e \in LLMExceptions :
            Exchange("generate_sql", generate_sql_query_failed(state, e),
                     <<<<"generate_sql", "llm">>>>, <<>>,
                     <<Unanswered("generate_sql", generate_sql_context(state))>>)

\* ------------------------------------------------------------------------
\* agents/query_executor.py
\* ------------------------------------------------------------------------
\* first position >= i of a match of  SELECT\s+(.*?)\s+FROM  ; the group is
\* SubSeq(u, g, h).  Greedy \s+ after SELECT, lazy group, "." not a newline.
SelectGroups(u, i) ==
    {gh \in (1..(Len(u) + 1)) \X (0..Len(u)) :
        /\ gh[1] > i + 6
        /\ gh[2] >= gh[1] - 1
        /\ AllSpace(SubSeq(u, i + 6, gh[1] - 1))
        /\ \A k \in gh[1]..gh[2] : Ch(u, k) # "\n"
        /\ \E f \in (gh[2] + 2)..(Len(u) - 3) :
            /\ AllSpace(SubSeq(u, gh[2] + 1, f - 1))
            /\ SubSeq(u, f, f + 3) = "FROM"}

SelectMatchStart(u) ==
    {i \in 1..(Len(u) - 5) : SubSeq(u, i, i + 5) = "SELECT" /\ SelectGroups(u, i) # {}}

\* re.split(r",(?![^\(]*\))", select_part)
RECURSIVE split_select_list(_)
split_select_list(s) ==
    LET \* a comma matched by  ,(?![^\(]*\))
        IsSplitComma(i) ==
            /\ Ch(s, i) = ","
            /\ ~ \E j \in (i + 1)..Len(s) :
                    /\ Ch(s, j) = ")"
                    /\ \A k \in (i + 1)..(j - 1) : Ch(s, k) # "("
    IN  IF \E i \in 1..Len(s) : IsSplitComma(i)
        THEN LET i == CHOOSE i \in 1..Len(s) :
                        IsSplitComma(i) /\ \A j \in 1..(i - 1) : ~ IsSplitComma(j)
             IN  <<SubSeq(s, 1, i - 1)>>
                    \o split_select_list(SubSeq(s, i + 1, Len(s)))
        ELSE <<s>>

RECURSIVE strip_quotes(_)
strip_quotes(s) ==
    LET QuoteChars == {Backquote, "\"", "'"}
    IN  IF s # "" /\ Head(s) \in QuoteChars THEN strip_quotes(Tail(s))
        ELSE IF s # "" /\ Ch(s, Len(s)) \in QuoteChars
        THEN strip_quotes(SubSeq(s, 1, Len(s) - 1))
        ELSE s

\* part.split()[-1] for a part that holds a non-space character
last_word(part) ==
    LET t == rstrip(part)
        starts == {i \in 1..Len(t) : \A k \in i..Len(t) : ~ IsSpace(Ch(t, k))}
    IN  SubSeq(t, CHOOSE i \in starts : \A j \in starts : i <= j, Len(t))

extract_column_names_from_query(query) ==
    LET query_upper == strip(upper(query))
        \* group(1) of the leftmost match of SELECT\s+(.*?)\s+FROM: the
        \* longest whitespace run first, then the shortest group
        select_part ==
            LET starts == SelectMatchStart(query_upper)
                i == CHOOSE i \in starts : \A j \in starts : i <= j
                G == SelectGroups(query_upper, i)
                g == CHOOSE g \in {gh[1] : gh \in G} : \A gh \in G : gh[1] <= g
                h == CHOOSE h \in {gh[2] : gh \in {x \in G : x[1] = g}} :
                        \A gh \in {x \in G : x[1] = g} : h <= gh[2]
            IN  SubSeq(query_upper, g, h)
        column_alias(part) ==
            LET p == strip(part)
                pieces == split(p, " AS ")
            IN  IF contains(p, " AS ")
                THEN strip_quotes(strip(pieces[Len(pieces)]))
                ELSE strip_quotes(last_word(p))
    IN  IF SelectMatchStart(query_upper) = {} THEN <<>>
        ELSE LET sp == select_part
                 parts == split_select_list(sp)
             IN  IF strip(sp) = "*" THEN <<>>
                 \* part.split()[-1] raises IndexError on a blank part
                 ELSE IF \E k \in 1..Len(parts) : strip(parts[k]) = ""
                 THEN <<>>
                 ELSE [k \in 1..Len(parts) |-> column_alias(parts[k])]

\* what the database answers to a statement: rows of the statement's arity
\* for a SELECT; a statement that returns no rows makes result_proxy.keys()
\* raise
DbAnswers(sql) ==
    LET \* a query result as the driver returns it: cursor column names and rows
        DbResults ==
            {[keys |-> <<"x">>, rows |-> <<>>],
             [keys |-> <<"x">>, rows |-> <<<<"1">>, <<"2">>>>],
             [keys |-> <<"x", "y">>, rows |-> <<<<"1", "a">>>>]}
        StatementArity ==
            IF ~ startswith(upper(sql), "SELECT") THEN 0
            ELSE IF contains(sql, "*") THEN 2
            ELSE Len(split(sql, ","))
    IN  {r \in DbResults : Len(r.keys) = StatementArity}

\* the node; error_guard is the early return on a recorded error
execute_sql_query_with(error_guard) ==
    IF error_guard /\ HasError(state)
    THEN Step("execute_sql", state, <<>>, <<>>)
    ELSE LET sql_query == rstrip_semicolon(strip(state.sql_query))
             columns == extract_column_names_from_query(sql_query)
         IN  \/ \E r \in DbAnswers(sql_query) :
                    Step("execute_sql",
                         [state EXCEPT !.results =
                             [present |-> TRUE,
                              columns |-> IF columns = <<>> THEN r.keys ELSE columns,
                              rows |-> r.rows]],
                         <<<<"execute_sql", "db">>>>, <<sql_query>>)
             \/ \E e \in {"no such column"} :
                    Step("execute_sql",
                         [state EXCEPT
                            !.error = "Failed to execute SQL query: " \o e,
                            !.results = [present |-> TRUE, columns |-> <<>>, rows |-> <<>>]],
                         <<<<"execute_sql", "db">>>>, <<sql_query>>)

\* the node without its early return: it executes whatever sql_query holds
execute_sql_query_unguarded == execute_sql_query_with(FALSE)

execute_sql_query == execute_sql_query_with(TRUE)

\* ------------------------------------------------------------------------
\* agents/output_parser.py
\* ------------------------------------------------------------------------
is_purpose_question(prompt) ==
    LET purpose_keywords == {"purpose", "describe", "about", "structure", "point"}
    IN  \E keyword \in purpose_keywords : contains(lower(prompt), keyword)

is_list_of_tables(results) ==
    /\ results.present
    /\ results.rows # <<>>
    /\ Len(results.columns) = 1
    /\ \A i \in 1..Len(results.rows) : Len(results.rows[i]) = 1

\* pd.DataFrame(rows, columns=columns) raises when a row's arity differs
\* from the number of columns
markdown_line(cells) == "| " \o join(" | ", cells) \o " |"

\* a rendering that prints the header and the rule but no row
to_markdown_header_only(results) ==
    join("\n",
         <<markdown_line(results.columns),
           markdown_line([k \in 1..Len(results.columns) |-> "---"])>>)

\* df.to_markdown(index=False): header, rule, one line per row
to_markdown(results) ==
    join("\n",
         <<markdown_line(results.columns),
           markdown_line([k \in 1..Len(results.columns) |-> "---"])>>
         \o [i \in 1..Len(results.rows) |-> markdown_line(results.rows[i])])

DeclineMessage ==
    "I am a database querying agent and do not have access to general knowledge. Please ask a question related to the database schema."
NoResultsMessage == "The query executed successfully, but it returned no results."

with_response(fo, response) ==
    [fo EXCEPT !.keys = @ \cup {"response"}, !.response = response]

\* the composer asking the database for a count before it answers
Finish_querying(fo, new_calls) ==
    Step("format_output", [state EXCEPT !.final_output = fo],
         <<<<"format_output", "db">>>> \o new_calls, <<>>)

Finish(fo, new_calls) ==
    Step("format_output", [state EXCEPT !.final_output = fo], new_calls, <<>>)

\* the exception left format_final_output: graph.invoke raises
Raise(new_calls) ==
    /\ pc = "format_output"
    /\ pc' = "raised"
    /\ visited' = Append(visited, "format_output")
    /\ calls' = calls \o new_calls
    /\ UNCHANGED <<state, invocation, exchanges, db_executed>>

\* the node; intent_first is the order of its first two tests (Case 1
\* before Case 2)
format_final_output_with(intent_first) ==
    LET fo == [keys |-> {"sql_query", "reasoning"},
               sql_query |-> IF state.sql_query = Absent
                             THEN "No SQL Query Generated." ELSE state.sql_query,
               reasoning |-> IF state.reasoning = Absent
                             THEN "No reasoning provided." ELSE state.reasoning,
               response |-> Absent,
               error |-> Absent]
        with_error(out, error) ==
            [out EXCEPT !.keys = @ \cup {"error"}, !.error = error]
        results == state.results
        DataFrameRaises ==
            \E i \in 1..Len(results.rows) :
                Len(results.rows[i]) # Len(results.columns)
        purpose_call == <<<<"format_output.purpose", "llm">>>>
        insight_call == <<<<"format_output", "llm">>>>
        irrelevant == state.intent_decision = "IRRELEVANT"
        fallback(e) ==
            with_response(with_error(fo, "Failed to format final output: " \o e),
                          "Here are the results from your query:\n\n"
                              \o to_markdown(results))
    IN  IF irrelevant /\ (intent_first \/ ~ HasError(state))
        THEN Finish(with_response(fo, DeclineMessage), <<>>)
        ELSE IF HasError(state)
        THEN Finish(with_response(fo, "An error occurred: " \o state.error), <<>>)
        ELSE IF ~ results.present \/ results.rows = <<>>
        THEN Finish(with_response(fo, NoResultsMessage), <<>>)
        ELSE IF is_purpose_question(state.user_prompt) /\ is_list_of_tables(results)
        THEN \/ \E answer \in LLMAnswers :
                    Finish(with_response(fo, answer), purpose_call)
             \/ \E e \in LLMExceptions : Finish(fallback(e), purpose_call)
        ELSE IF DataFrameRaises
        THEN Raise(<<>>)
        ELSE \/ \E answer \in LLMAnswers :
                    Finish(with_response(fo, answer), insight_call)
             \/ \E e \in LLMExceptions : Finish(fallback(e), insight_call)

\* the node testing for a recorded error before the IRRELEVANT intent
format_final_output_error_first == format_final_output_with(FALSE)

format_final_output == format_final_output_with(TRUE)

\* ------------------------------------------------------------------------
\* Phase_2/main.py : the chat session around the graph
\* ------------------------------------------------------------------------
NoGraphState == [none |-> TRUE, st |-> NoState]

\* no _handle_query_result call under way
NormIdle ==
    /\ norm_pc = "idle"
    /\ norm_shape = "list"
    /\ norm_result = <<>>
    /\ norm_text = None
    /\ norm_origin = <<>>
    /\ norm_query = None
    /\ norm_tabulate = TRUE
    /\ norm_return = None

\* initialize_session_state: "query_logs": []
LogIdle ==
    /\ query_logs = [present |-> TRUE, items |-> <<>>]
    /\ log_calls = 0

GateIdle ==
    /\ gate_pc = "idle"
    /\ gate_query = None
    /\ gate_return = None
    /\ db_run = <<>>
    /\ NormIdle
    /\ LogIdle

\* initialize_session_state on a new session
SessionInit ==
    /\ messages = [none |-> FALSE, items |-> <<>>]
    /\ db_connected = "False"
    /\ new_prompt = None
    /\ current_graph_state = NoGraphState
    /\ asked = 0

GraphIdle ==
    /\ pc = "idle"
    /\ invocation = "none"
    /\ state = NoState
    /\ visited = <<>>
    /\ calls = <<>>
    /\ exchanges = <<>>
    /\ db_executed = <<>>

Init == SessionInit /\ GraphIdle /\ GateIdle

\* ConnectionManager.attempt_connection, when the connection succeeds
attempt_connection ==
    /\ pc = "idle"
    /\ db_connected # "True"
    /\ db_connected' = "True"
    /\ UNCHANGED <<messages, new_prompt, current_graph_state, asked>>
    /\ UNCHANGED <<gate_vars, graph_vars>>

\* ConnectionManager.disconnect: every key is set to None, and
\* initialize_session_state only fills keys the session does not hold
disconnect ==
    /\ pc = "idle"
    /\ db_connected = "True"
    /\ db_connected' = None
    /\ messages' = [none |-> TRUE, items |-> <<>>]
    /\ current_graph_state' = NoGraphState
    /\ new_prompt' = None
    /\ UNCHANGED asked
    /\ UNCHANGED <<gate_vars, graph_vars>>

\* render_chat_interface iterates over messages before anything else
ChatRenders == db_connected = "True" /\ ~ messages.none

PendingConfirmation ==
    ~ current_graph_state.none /\ current_graph_state.st.needs_user_confirmation

\* render_chat_interface, st.chat_input branch
submit_prompt ==
    /\ pc = "idle"
    /\ ChatRenders
    /\ new_prompt = None
    /\ ~ PendingConfirmation
    /\ asked < MaxQuestions
    /\ \E prompt \in Prompts :
        /\ messages' = [messages EXCEPT !.items = Append(@, [role |-> "user", content |-> prompt])]
        /\ new_prompt' = prompt
    /\ asked' = asked + 1
    /\ UNCHANGED <<db_connected, current_graph_state>>
    /\ UNCHANGED <<gate_vars, graph_vars>>

\* render_chat_interface, new_prompt branch: run_initial_pipeline starts
run_initial_pipeline ==
    /\ pc = "idle"
    /\ ChatRenders
    /\ new_prompt # None
    /\ new_prompt' = None
    /\ pc' = "START"
    /\ invocation' = "initial"
    /\ state' = initial_state(new_prompt)
    /\ visited' = <<>>
    /\ calls' = <<>>
    /\ exchanges' = <<>>
    /\ db_executed' = <<>>
    /\ UNCHANGED <<messages, db_connected, current_graph_state, asked>>
    /\ UNCHANGED gate_vars

\* graph.invoke returned to run_initial_pipeline: the state is stored
initial_pipeline_returns ==
    /\ pc = "END"
    /\ invocation = "initial"
    /\ current_graph_state' = [none |-> FALSE, st |-> state]
    /\ pc' = "idle"
    /\ invocation' = "none"
    /\ state' = NoState
    /\ visited' = <<>>
    /\ calls' = IF state.needs_user_confirmation THEN calls ELSE <<>>
    /\ exchanges' = IF state.needs_user_confirmation THEN exchanges ELSE <<>>
    /\ db_executed' = IF state.needs_user_confirmation THEN db_executed ELSE <<>>
    /\ UNCHANGED <<messages, db_connected, new_prompt, asked>>
    /\ UNCHANGED gate_vars

\* re.findall(r"CREATE TABLE `?(\w+)`?", schema_string)
RECURSIVE word_run(_)
word_run(s) ==
    IF s # "" /\ IsWordChar(Head(s)) THEN Head(s) \o word_run(Tail(s)) ELSE ""

RECURSIVE all_tables(_)
all_tables(s) ==
    IF Len(s) < 13 THEN <<>>
    ELSE LET rest == SubSeq(s, 14, Len(s))
             name == word_run(IF startswith(rest, Backquote) THEN Tail(rest) ELSE rest)
         IN  IF startswith(s, "CREATE TABLE ") /\ name # ""
             THEN <<name>> \o all_tables(SubSeq(rest, Len(name) + 1, Len(rest)))
             ELSE all_tables(Tail(s))

\* what st.multiselect can return: the options picked, in option order
RECURSIVE SubLists(_)
SubLists(options) ==
    IF options = <<>> THEN {<<>>}
    ELSE LET rest == SubLists(Tail(options))
         IN  rest \cup {<<Head(options)>> \o r : r \in rest}

\* handle_table_confirmation_step, form submitted:
\* run_pipeline_after_confirmation starts
confirm_tables ==
    /\ pc = "idle"
    /\ ChatRenders
    /\ new_prompt = None
    /\ PendingConfirmation
    /\ \E confirmed_tables \in SubLists(all_tables(current_graph_state.st.schema)) :
        state' = [current_graph_state.st EXCEPT
                    !.confirmed_tables = confirmed_tables,
                    !.needs_user_confirmation = FALSE]
    /\ current_graph_state' = [none |-> FALSE, st |-> state']
    /\ pc' = "START"
    /\ invocation' = "resume"
    /\ visited' = <<>>
    /\ UNCHANGED <<calls, exchanges, db_executed>>
    /\ UNCHANGED <<messages, db_connected, new_prompt, asked>>
    /\ UNCHANGED gate_vars

\* final_state.get("final_output", {"error": "An unexpected error occurred."})
final_result(st) ==
    IF st.final_output.keys # {} THEN st.final_output
    ELSE [NoFinalOutput EXCEPT !.keys = {"error"},
                               !.error = "An unexpected error occurred."]

response_content(result) ==
    IF "response" \in result.keys THEN result.response ELSE "No response generated."

\* run_pipeline_after_confirmation returned: the answer is appended
pipeline_after_confirmation_returns ==
    /\ pc = "END"
    /\ invocation = "resume"
    /\ messages' = [messages EXCEPT !.items =
            Append(@, [role |-> "assistant",
                       content |-> response_content(final_result(state))])]
    /\ current_graph_state' = NoGraphState
    /\ pc' = "idle"
    /\ invocation' = "none"
    /\ state' = NoState
    /\ visited' = <<>> /\ calls' = <<>> /\ exchanges' = <<>> /\ db_executed' = <<>>
    /\ UNCHANGED <<db_connected, new_prompt, asked>>
    /\ UNCHANGED gate_vars

\* an exception left graph.invoke: the script run stops, the session state
\* stays as it is
pipeline_raises ==
    /\ pc = "raised"
    /\ pc' = "idle"
    /\ invocation' = "none"
    /\ state' = NoState
    /\ visited' = <<>> /\ calls' = <<>> /\ exchanges' = <<>> /\ db_executed' = <<>>
    /\ UNCHANGED session_vars
    /\ UNCHANGED gate_vars

Node(A) == A /\ UNCHANGED session_vars /\ UNCHANGED gate_vars

Next ==
    \/ attempt_connection
    \/ disconnect
    \/ submit_prompt
    \/ run_initial_pipeline
    \/ initial_pipeline_returns
    \/ confirm_tables
    \/ pipeline_after_confirmation_returns
    \/ pipeline_raises
    \/ Node(Start)
    \/ Node(connect_to_db)
    \/ Node(retrieve_schema)
    \/ Node(identify_intent)
    \/ Node(select_tables)
    \/ Node(prune_columns)
    \/ Node(generate_sql_query)
    \/ Node(execute_sql_query)
    \/ Node(format_final_output)

Spec == Init /\ [][Next]_vars

\* graph.invoke and the two functions that call it are synchronous: once a
\* run is under way, the node it stands at runs, the edge out of it is taken,
\* and at the end (or on an exception) control is back in the script. Every
\* position but "idle" has such a step in Next, so a run does not stay at its
\* position for ever. The user is not obliged to act.
Advance ==
    /\ pc # "idle"
    /\ pc' \in {"idle", "START", "connect_to_db", "retrieve_schema",
                "identify_intent", "select_tables", "prune_columns",
                "generate_sql", "execute_sql", "format_output", "END", "raised"}

SpecFair == Spec /\ WF_pc(Advance)

\* ------------------------------------------------------------------------
\* Phase_1 : one execute_query call on every SQL text of GateInputs
\* ------------------------------------------------------------------------
GateInit ==
    /\ gate_pc = "call"
    /\ gate_query \in GateInputs
    /\ gate_return = None
    /\ db_run = <<>>
    /\ NormIdle
    /\ LogIdle
    /\ SessionInit
    /\ GraphIdle

\* SQLExecutor.execute_query
execute_query ==
    /\ gate_pc = "call"
    /\ gate_pc' = "returned"
    /\ UNCHANGED gate_query
    /\ LET safe_query == safe_sql(gate_query, MAX_QUERY_RESULTS)
       IN  IF IsViolation(safe_query)
           THEN /\ gate_return' = safe_query
                /\ UNCHANGED db_run
           ELSE /\ db_run' = Append(db_run, safe_query)
                /\ \/ \E formatted_result \in {"No data returned", "| a |\n|---|\n| 1 |"} :
                        gate_return' =
                            "QUERY: " \o safe_query \o "\n\nRESULT:\n" \o formatted_result
                   \/ \E e \in {"no such table: t"} :
                        gate_return' = "Error: " \o e
    /\ UNCHANGED <<norm_vars, log_vars, graph_vars, session_vars>>

GateNext == execute_query

SpecGate == GateInit /\ [][GateNext]_vars

\* ------------------------------------------------------------------------
\* Phase_1 : SQLExecutor._handle_query_result on a list and on a str
\* ------------------------------------------------------------------------
\* str.replace(old, new)
replace(s, old, new) == join(new, split(s, old))

RECURSIVE repeat(_, _)
repeat(c, n) == IF n = 0 THEN "" ELSE c \o repeat(c, n - 1)

\* one entry of the select list, SQLExecutor._extract_column_names_from_query
select_list_name(entry) ==
    LET col == strip(entry)
    IN  IF contains(col, " AS ") THEN strip(split(col, " AS ")[2])
        ELSE IF contains(col, " ") /\ ~ \E func \in {"COUNT", "SUM", "AVG", "MIN", "MAX"} : contains(col, func)
        THEN last_word(col)
        ELSE col

\* SQLExecutor._extract_column_names_from_query(query, num_columns);
\* <<>> stands for None
SQLExecutor_extract_column_names_from_query(query, num_columns) ==
    LET query_upper == upper(query)
    IN  IF contains(query_upper, "SELECT") /\ contains(query_upper, "FROM")
        THEN LET sp == strip(replace(split(query_upper, "FROM")[1], "SELECT", ""))
                 cols == split(sp, ",")
                 columns == [k \in 1..Len(cols) |-> select_list_name(cols[k])]
             IN  IF sp = "*" THEN <<>>
                 ELSE IF Len(columns) = num_columns THEN columns
                 ELSE <<>>
        ELSE <<>>

BasicRowCap == 20

\* SQLExecutor._format_dataframe_basic, printing at most cap rows
format_dataframe_basic_head(df, cap) ==
    LET header == join(" | ", df.columns)
        shown == SubSeq(df.rows, 1, IF Len(df.rows) < cap THEN Len(df.rows) ELSE cap)
        more == IF Len(df.rows) > cap
                THEN <<"... and " \o str_int(Len(df.rows) - cap) \o " more rows">>
                ELSE <<>>
    IN  join("\n",
             <<header, repeat("-", Len(header))>>
             \o [i \in 1..Len(shown) |-> join(" | ", shown[i])]
             \o more)

\* the basic formatter printing ten rows only
format_dataframe_basic_head_10(df) == format_dataframe_basic_head(df, 10)

format_dataframe_basic(df) == format_dataframe_basic_head(df, BasicRowCap)

\* pd.DataFrame(result): as many columns as the longest row has values, the
\* shorter rows filled up with None
DataFrame(result) ==
    LET num_columns ==
            CHOOSE n \in {Len(result[i]) : i \in 1..Len(result)} :
                \A i \in 1..Len(result) : Len(result[i]) <= n
    IN  [i \in 1..Len(result) |->
            [k \in 1..num_columns |->
                IF k <= Len(result[i]) THEN result[i][k] ELSE "None"]]

\* SQLExecutor._format_list_result; df.to_markdown raises ImportError
\* without tabulate
format_list_result(result, query, tabulate) ==
    IF result = <<>> THEN "No data returned"
    ELSE LET frame == DataFrame(result)
             num_columns == Len(frame[1])
             column_names ==
                 SQLExecutor_extract_column_names_from_query(query, num_columns)
             df == [columns |->
                        IF column_names # <<>> THEN column_names
                        ELSE [i \in 1..num_columns |-> "Column_" \o str_int(i)],
                    rows |-> frame]
         IN  IF tabulate THEN to_markdown(df) ELSE format_dataframe_basic(df)

\* ------------------------------------------------------------------------
\* Phase_1 : a raw result that arrives as a str
\* ------------------------------------------------------------------------
\* a value of a driver row is its Python type t ("int", "float", "str",
\* "NoneType", "Decimal" or "datetime") and the text s that str() gives for it

\* a run of decimal digits read as an int prints without its leading zeros
RECURSIVE int_text(_)
int_text(d) == IF Len(d) > 1 /\ Head(d) = "0" THEN int_text(Tail(d)) ELSE d

\* repr() of one value
py_repr(v) ==
    LET \* of a datetime whose str() is "YYYY-MM-DD HH:MM:SS"
        datetime_repr(s) ==
            LET date == split(split(s, " ")[1], "-")
                time == split(split(s, " ")[2], ":")
                fields == [k \in 1..3 |-> int_text(date[k])]
                            \o [k \in 1..2 |-> int_text(time[k])]
                            \o (IF int_text(time[3]) = "0" THEN <<>>
                                ELSE <<int_text(time[3])>>)
            IN  "datetime.datetime(" \o join(", ", fields) \o ")"
        \* of a str without backslashes or control characters
        str_repr(s) ==
            IF contains(s, "'") /\ ~ contains(s, "\"")
            THEN "\"" \o s \o "\""
            ELSE "'" \o replace(s, "'", "\\'") \o "'"
    IN  CASE v.t = "str" -> str_repr(v.s)
          [] v.t = "Decimal" -> "Decimal('" \o v.s \o "')"
          [] v.t = "datetime" -> datetime_repr(v.s)
          [] OTHER -> v.s

\* str() of a list of tuples
list_str(rows) ==
    LET tuple_repr(row) ==
            IF Len(row) = 1 THEN "(" \o py_repr(row[1]) \o ",)"
            ELSE "(" \o join(", ", [k \in 1..Len(row) |-> py_repr(row[k])]) \o ")"
    IN  "[" \o join(", ", [i \in 1..Len(rows) |-> tuple_repr(rows[i])]) \o "]"

\* the end of the longest run that starts at i of characters inside a class
\* (inside = TRUE) or outside it, i - 1 when the run is empty
RECURSIVE run_end(_, _, _, _)
run_end(s, i, class, inside) ==
    IF i <= Len(s) /\ ((Ch(s, i) \in class) = inside)
    THEN run_end(s, i + 1, class, inside)
    ELSE i - 1

\* where p ends when it stands at position i of s, 0 when it does not
literal_end(s, i, p) ==
    IF i >= 1 /\ i + Len(p) - 1 <= Len(s) /\ SubSeq(s, i, i + Len(p) - 1) = p
    THEN i + Len(p) - 1 ELSE 0

\* SQLExecutor._clean_result_string; the first pattern, <ast\.\w+ ...>, only
\* matches what the first pattern of patterns_to_clean matches as well. A
\* pattern is the sequence of its pieces: a text, one character of a class,
\* or a run of one or more characters inside or outside a class; no piece of
\* these patterns can match what the piece after it matches, so the longest
\* run is the only candidate
clean_result_string(result_str) ==
    LET text(t) == [kind |-> "text", text |-> t, class |-> {}]
        one(class) == [kind |-> "one", text |-> "", class |-> class]
        some(class) == [kind |-> "some", text |-> "", class |-> class]
        none_of(class) == [kind |-> "none of", text |-> "", class |-> class]
        HexSet ==
            DigitSet \cup {"a", "b", "c", "d", "e", "f", "A", "B", "C", "D", "E", "F"}
        \* <[\w\.]+\s+object\s+at\s+0x[0-9a-fA-F]+>
        object_repr ==
            <<text("<"), some(WordSet \cup {"."}), some(SpaceSet), text("object"),
              some(SpaceSet), text("at"), some(SpaceSet), text("0x"), some(HexSet),
              text(">")>>
        \* Decimal\(['"]([0-9\.]+)['"]\)
        decimal_repr ==
            <<text("Decimal("), one({"'", "\""}), some(DigitSet \cup {"."}),
              one({"'", "\""}), text(")")>>
        \* datetime\.datetime\([^)]+\)
        datetime_repr ==
            <<text("datetime.datetime("), none_of({")"}), text(")")>>
        \* where the match of the pieces that starts at i ends, 0 if there is none
        RECURSIVE match_end(_, _, _)
        match_end(pieces, s, i) ==
            IF pieces = <<>> THEN i - 1
            ELSE LET piece == Head(pieces)
                     e == CASE piece.kind = "text" -> literal_end(s, i, piece.text)
                            [] piece.kind = "one" ->
                                    IF i <= Len(s) /\ Ch(s, i) \in piece.class
                                    THEN i ELSE 0
                            [] piece.kind = "some" -> run_end(s, i, piece.class, TRUE)
                            [] OTHER -> run_end(s, i, piece.class, FALSE)
                 IN  IF e < i THEN 0 ELSE match_end(Tail(pieces), s, e + 1)
        \* re.sub(pattern, replacement, s): the matches are taken from left to
        \* right and do not overlap; the replacement \1 is group 1 of the
        \* Decimal pattern, the digits between the quotes
        RECURSIVE re_sub(_, _, _, _)
        re_sub(pieces, replacement, s, i) ==
            IF i > Len(s) THEN ""
            ELSE LET e == match_end(pieces, s, i)
                 IN  IF e = 0 THEN Ch(s, i) \o re_sub(pieces, replacement, s, i + 1)
                     ELSE (IF replacement = "\\1"
                           THEN SubSeq(s, i + Len("Decimal(") + 1, e - 2)
                           ELSE replacement)
                            \o re_sub(pieces, replacement, s, e + 1)
        objects == re_sub(object_repr, "\"[OBJECT]\"", result_str, 1)
        decimals == re_sub(decimal_repr, "\\1", objects, 1)
    IN  re_sub(datetime_repr, "\"[DATETIME]\"", decimals, 1)

\* ------------------------------------------------------------------------
\* ast.literal_eval and json.loads on the text of a result
\* ------------------------------------------------------------------------
Punctuation == {"[", "]", "(", ")", "{", "}", ",", ":"}
QuoteMarks == {"'", "\""}

\* the index of the quote that closes the string opened before i, 0 if none
RECURSIVE closing_quote(_, _, _)
closing_quote(s, i, q) ==
    IF i > Len(s) THEN 0
    ELSE IF Ch(s, i) = "\\" THEN closing_quote(s, i + 2, q)
    ELSE IF Ch(s, i) = q THEN i
    ELSE closing_quote(s, i + 1, q)

\* the text of a quoted string with its backslash escapes resolved
RECURSIVE unescape(_)
unescape(s) ==
    IF s = "" THEN ""
    ELSE IF Head(s) = "\\" /\ Len(s) > 1 THEN Ch(s, 2) \o unescape(SubSeq(s, 3, Len(s)))
    ELSE Head(s) \o unescape(Tail(s))

\* the lexical items of a literal: punctuation, quoted strings and words
RECURSIVE literal_tokens(_, _)
literal_tokens(s, i) ==
    IF i > Len(s) THEN <<>>
    ELSE LET c == Ch(s, i)
         IN  IF IsSpace(c) THEN literal_tokens(s, i + 1)
             ELSE IF c \in Punctuation
             THEN <<[k |-> "punct", v |-> c]>> \o literal_tokens(s, i + 1)
             ELSE IF c \in QuoteMarks
             THEN LET e == closing_quote(s, i + 1, c)
                  IN  IF e = 0 THEN <<[k |-> "bad", v |-> ""]>>
                      ELSE <<[k |-> c, v |-> unescape(SubSeq(s, i + 1, e - 1))]>>
                            \o literal_tokens(s, e + 1)
             ELSE LET e == CHOOSE e \in i..Len(s) :
                            /\ \A j \in i..e :
                                Ch(s, j) \notin Punctuation \cup QuoteMarks \cup SpaceSet
                            /\ e = Len(s) \/ Ch(s, e + 1) \in
                                    Punctuation \cup QuoteMarks \cup SpaceSet
                  IN  <<[k |-> "word", v |-> SubSeq(s, i, e)]>>
                        \o literal_tokens(s, e + 1)

IsPunct(tok, c) == tok.k = "punct" /\ tok.v = c

\* a decimal number: digits, at most one point, an optional minus sign
IsNumber(w) ==
    LET u == IF startswith(w, "-") THEN Tail(w) ELSE w
    IN  /\ u # "" /\ u # "."
        /\ \A i \in 1..Len(u) : Ch(u, i) \in DigitSet \cup {"."}
        /\ count(u, ".") <= 1
        /\ (Len(u) > 1 /\ Head(u) = "0")
                => (Ch(u, 2) = "." \/ \A i \in 1..Len(u) : Ch(u, i) = "0")

RECURSIVE strip_trailing_zeros(_)
strip_trailing_zeros(d) ==
    IF Len(d) > 1 /\ Ch(d, Len(d)) = "0"
    THEN strip_trailing_zeros(SubSeq(d, 1, Len(d) - 1)) ELSE d

\* str() of the number a literal denotes; a literal with a point is a float,
\* which prints its shortest form (a few digits, no exponent)
number_str(w) ==
    LET neg == startswith(w, "-")
        u == IF neg THEN Tail(w) ELSE w
        parts == split(u, ".")
        whole == IF parts[1] = "" THEN "0" ELSE int_text(parts[1])
        frac == IF Len(parts) = 1 THEN ""
                ELSE IF parts[2] = "" THEN "0" ELSE strip_trailing_zeros(parts[2])
        text == IF Len(parts) = 1 THEN whole ELSE whole \o "." \o frac
    IN  IF neg /\ (Len(parts) > 1 \/ whole # "0") THEN "-" \o text ELSE text

JsonNames == [null |-> "None", true |-> "True", false |-> "False"]

\* whether one token is a scalar of the dialect ("python" or "json")
IsAtom(tok, dialect) ==
    \/ tok.k = "\""
    \/ tok.k = "'" /\ dialect = "python"
    \/ /\ tok.k = "word"
       /\ \/ IsNumber(tok.v) /\ (dialect = "json" => ~ endswith(tok.v, ".")
                                                    /\ ~ startswith(tok.v, "."))
          \/ dialect = "python" /\ tok.v \in {"None", "True", "False"}
          \/ dialect = "json" /\ tok.v \in DOMAIN JsonNames

\* str() of the scalar one token denotes
atom_str(tok, dialect) ==
    IF tok.k \in QuoteMarks THEN tok.v
    ELSE IF IsNumber(tok.v) THEN number_str(tok.v)
    ELSE IF dialect = "json" THEN JsonNames[tok.v]
    ELSE tok.v

\* the tokens between the commas of a bracketed sequence of scalars
RECURSIVE comma_pieces(_)
comma_pieces(toks) ==
    IF \E i \in 1..Len(toks) : IsPunct(toks[i], ",")
    THEN LET i == CHOOSE i \in 1..Len(toks) :
                    /\ IsPunct(toks[i], ",")
                    /\ \A j \in 1..(i - 1) : ~ IsPunct(toks[j], ",")
         IN  <<SubSeq(toks, 1, i - 1)>> \o comma_pieces(SubSeq(toks, i + 1, Len(toks)))
    ELSE <<toks>>

\* the pieces of the items of a sequence: python allows one trailing comma
items_of(toks, dialect) ==
    LET pieces == comma_pieces(toks)
    IN  IF toks = <<>> THEN <<>>
        ELSE IF dialect = "python" /\ pieces[Len(pieces)] = <<>>
        THEN SubSeq(pieces, 1, Len(pieces) - 1)
        ELSE pieces

\* what a parse gives: ok is FALSE when it raises ValueError, SyntaxError or
\* JSONDecodeError; kind is "list", "str", "dict" or "scalar"; rows are the
\* items of a list, each a sequence of printed scalars; text is a str value
ParseFailed == [ok |-> FALSE, kind |-> "", truthy |-> FALSE, rows |-> <<>>, text |-> ""]
ParsedList(rows) ==
    [ok |-> TRUE, kind |-> "list", truthy |-> rows # <<>>, rows |-> rows, text |-> ""]

\* the items of a list, one after the other: a scalar, or a flat tuple or
\* list of scalars
RECURSIVE parse_items(_, _)
parse_items(toks, dialect) ==
    IF toks = <<>> THEN ParsedList(<<>>)
    ELSE LET \* a flat sequence of scalars between two brackets
             IsFlatSequence(seq, open, close) ==
                /\ Len(seq) >= 2
                /\ IsPunct(seq[1], open) /\ IsPunct(seq[Len(seq)], close)
                /\ LET items == items_of(SubSeq(seq, 2, Len(seq) - 1), dialect)
                   IN  \A k \in 1..Len(items) :
                            Len(items[k]) = 1 /\ IsAtom(items[k][1], dialect)
             flat_sequence_strs(seq) ==
                LET items == items_of(SubSeq(seq, 2, Len(seq) - 1), dialect)
                IN  [k \in 1..Len(items) |-> atom_str(items[k][1], dialect)]
             first == toks[1]
             nested == IsPunct(first, "[") \/ (IsPunct(first, "(") /\ dialect = "python")
             close == IF IsPunct(first, "(") THEN ")" ELSE "]"
             ends == {j \in 2..Len(toks) : IsPunct(toks[j], close)}
             e == IF nested
                  THEN IF ends = {} THEN 0 ELSE CHOOSE j \in ends : \A m \in ends : j <= m
                  ELSE IF IsAtom(first, dialect) THEN 1 ELSE 0
             item_ok == /\ e # 0
                        /\ nested => IsFlatSequence(SubSeq(toks, 1, e), first.v, close)
             row == IF nested THEN flat_sequence_strs(SubSeq(toks, 1, e))
                    ELSE <<atom_str(first, dialect)>>
             rest == SubSeq(toks, e + 1, Len(toks))
         IN  IF ~ item_ok THEN ParseFailed
             ELSE IF rest = <<>> THEN ParsedList(<<row>>)
             ELSE IF ~ IsPunct(rest[1], ",") THEN ParseFailed
             ELSE IF Len(rest) = 1
             THEN IF dialect = "python" THEN ParsedList(<<row>>) ELSE ParseFailed
             ELSE LET more == parse_items(Tail(rest), dialect)
                  IN  IF more.ok THEN ParsedList(<<row>> \o more.rows) ELSE ParseFailed

\* the value a text denotes in a dialect
parse_literal(s, dialect) ==
    LET toks == literal_tokens(s, 1)
        \* bool() of the scalar one token denotes
        atom_truthy(tok) ==
            IF tok.k \in QuoteMarks THEN tok.v # ""
            ELSE IF IsNumber(tok.v)
            THEN \E i \in 1..Len(tok.v) : Ch(tok.v, i) \in DigitSet \ {"0"}
            ELSE tok.v \in {"True", "true"}
        \* a JSON object of scalar members
        IsFlatObject ==
            /\ Len(toks) >= 2
            /\ IsPunct(toks[1], "{") /\ IsPunct(toks[Len(toks)], "}")
            /\ LET members == items_of(SubSeq(toks, 2, Len(toks) - 1), "json")
               IN  \A k \in 1..Len(members) :
                        /\ Len(members[k]) = 3
                        /\ members[k][1].k = "\""
                        /\ IsPunct(members[k][2], ":")
                        /\ IsAtom(members[k][3], "json")
    IN  IF toks = <<>> \/ \E i \in 1..Len(toks) : toks[i].k = "bad" THEN ParseFailed
        ELSE IF IsPunct(toks[1], "[") /\ IsPunct(toks[Len(toks)], "]")
        THEN parse_items(SubSeq(toks, 2, Len(toks) - 1), dialect)
        ELSE IF Len(toks) = 1 /\ IsAtom(toks[1], dialect)
        THEN [ok |-> TRUE,
              kind |-> IF toks[1].k \in QuoteMarks THEN "str" ELSE "scalar",
              truthy |-> atom_truthy(toks[1]), rows |-> <<>>,
              text |-> atom_str(toks[1], dialect)]
        ELSE IF dialect = "json" /\ IsFlatObject
        THEN [ok |-> TRUE, kind |-> "dict", truthy |-> Len(toks) > 2,
              rows |-> <<>>, text |-> ""]
        ELSE ParseFailed

\* ast.literal_eval(text)
literal_eval(s) == parse_literal(s, "python")

\* json.loads(text)
json_loads(s) == parse_literal(s, "json")

\* SQLExecutor._format_list_result on whatever a parse gave: an empty value
\* is "No data returned"; pd.DataFrame raises on a scalar, a str and a dict
\* of scalars, and then result[:10] lists the characters of a str and raises
\* TypeError on the others
format_parsed_result(data, query, tabulate) ==
    LET \* what the call gives: the str it returns, or an exception
        Returned(text) == [raised |-> FALSE, text |-> text]
        Raised == [raised |-> TRUE, text |-> ""]
        \* the first characters of a str, one per line of the fallback listing
        shown == IF Len(data.text) < 10 THEN Len(data.text) ELSE 10
        row_listing ==
            join("\n", [i \in 1..shown |->
                            "Row " \o str_int(i) \o ": " \o Ch(data.text, i)])
    IN  IF ~ data.truthy THEN Returned("No data returned")
        ELSE IF data.kind = "list"
        THEN Returned(format_list_result(data.rows, query, tabulate))
        ELSE IF data.kind = "str" THEN Returned(row_listing)
        ELSE Raised

\* SQLExecutor._parse_delimited_text
parse_delimited_text(lines, query, tabulate) ==
    LET \* the cells of one line, stripped, the empty ones left out; the
        \* delimiter of a line is the tab, then the pipe, then the comma
        line_cells(line) ==
            LET d == IF contains(line, "\t") THEN "\t"
                     ELSE IF contains(line, "|") THEN "|"
                     ELSE IF contains(line, ",") THEN ","
                     ELSE ""
                row == IF d = "" THEN <<line>> ELSE split(line, d)
                cells == [k \in 1..Len(row) |-> strip(row[k])]
            IN  SelectSeq(cells, LAMBDA cell : cell # "")
        kept == SelectSeq(lines, LAMBDA line : strip(line) # "")
        rows == [i \in 1..Len(kept) |-> line_cells(kept[i])]
        data == SelectSeq(rows, LAMBDA row : row # <<>>)
    IN  IF data # <<>> THEN format_list_result(data, query, tabulate)
        ELSE "No valid data found"

\* SQLExecutor._parse_string_result: the literal strategy, the JSON strategy,
\* the delimited lines, and the text as it is; an exception that leaves
\* _format_list_result ends in the outer handler, which returns the text
parse_string_result(result_str, query, tabulate) ==
    LET bracketed == startswith(result_str, "[") /\ endswith(result_str, "]")
        literal == IF bracketed THEN literal_eval(clean_result_string(result_str))
                   ELSE ParseFailed
        data == IF literal.ok THEN literal ELSE json_loads(result_str)
        formatted == format_parsed_result(data, query, tabulate)
        lines == split(strip(result_str), "\n")
    IN  IF data.ok
        THEN IF formatted.raised THEN result_str ELSE formatted.text
        ELSE IF Len(lines) > 1 THEN parse_delimited_text(lines, query, tabulate)
        ELSE result_str

\* raw results: rows numbered in order, and short lists over two values
RawLists ==
    LET NumberedRows(n, arity) ==
            [i \in 1..n |-> [k \in 1..arity |->
                IF k = 1 THEN str_int(i) ELSE "r" \o str_int(i)]]
    IN
    {NumberedRows(n, arity) : n \in 0..MaxRows, arity \in 1..MaxArity}
        \cup UNION {[1..n -> [1..1 -> {"a", "7"}]] : n \in 1..2}

NormQueries ==
    {"SELECT id, name FROM t", "SELECT * FROM t",
     "select t.id code from t", "SELECT COUNT(*) AS n FROM t",
     "SELECT f(a, g(b)) AS v FROM t"}

\* rows as a driver returns them: each value with its Python type
DriverLists ==
    LET Value(t, s) == [t |-> t, s |-> s]
        TypedRows(n) ==
            [i \in 1..n |->
                <<Value("int", str_int(i)), Value("str", "r" \o str_int(i))>>]
    IN
    {TypedRows(n) : n \in 0..3}
        \cup {<<<<Value("int", "1"), Value("str", "a")>>,
                 <<Value("int", "2"), Value("str", "b")>>>>,
               <<<<Value("int", "7")>>>>,
               <<<<Value("NoneType", "None")>>>>,
               <<<<Value("str", "it's")>>>>,
               <<<<Value("str", "x, (y)")>>>>,
               <<<<Value("float", "1.5")>>>>,
               <<<<Value("Decimal", "1.5")>>>>,
               <<<<Value("Decimal", "1.50")>>>>,
               <<<<Value("Decimal", "-1.5")>>>>,
               <<<<Value("int", "1"), Value("datetime", "2020-01-01 00:00:00")>>>>}

\* other texts a driver or a tool can hand over
RawTexts ==
    {"[[1, \"a\"], [2, \"b\"]]", "[oops]", "0", "7", "null", "true", "\"abc\"",
     "{}", "{\"a\": 1}", "hello", "1,a", " ",
     "id\tname\n1\ta", "1|a\n2|b", "1,a\n2,b", "a\tb|c,d\ne\tf", "x\ny",
     "1,,3\n4,5,6", ",\n,", "[(1, 'a')]\n",
     "[(<foo.Bar object at 0x7f00>,)]"}

NormInit ==
    /\ norm_pc = "call"
    /\ \/ /\ norm_shape = "list"
          /\ norm_result \in RawLists
          /\ norm_text = None
          /\ norm_origin = <<>>
       \/ /\ norm_shape = "str"
          /\ norm_result = <<>>
          /\ norm_origin \in DriverLists
          /\ norm_text = list_str(norm_origin)
       \/ /\ norm_shape = "str"
          /\ norm_result = <<>>
          /\ norm_origin = <<>>
          /\ norm_text \in RawTexts
    /\ norm_query \in NormQueries
    /\ norm_tabulate \in BOOLEAN
    /\ norm_return = None
    /\ gate_pc = "idle"
    /\ gate_query = None
    /\ gate_return = None
    /\ db_run = <<>>
    /\ LogIdle
    /\ SessionInit
    /\ GraphIdle

\* SQLExecutor._handle_query_result, Case 1: the result is a list, and
\* Case 2: the result is a str
handle_query_result ==
    /\ norm_pc = "call"
    /\ norm_pc' = "returned"
    /\ norm_return' =
            IF norm_shape = "list"
            THEN format_list_result(norm_result, norm_query, norm_tabulate)
            ELSE parse_string_result(norm_text, norm_query, norm_tabulate)
    /\ UNCHANGED <<norm_shape, norm_result, norm_text, norm_origin, norm_query,
                   norm_tabulate>>
    /\ UNCHANGED <<gate_pc, gate_query, gate_return, db_run, log_vars>>
    /\ UNCHANGED <<graph_vars, session_vars>>

NormNext == handle_query_result

SpecNormalize == NormInit /\ [][NormNext]_vars

\* ------------------------------------------------------------------------
\* Phase_1 : QueryLogger.log_query_execution on the session's query log
\* ------------------------------------------------------------------------
MAX_LOGGED_QUERIES == 50

\* the slice kept once the log is longer than the cap: the last entries
\* (newest = TRUE, query_logs[-50:]) or the first ones (query_logs[:50])
log_query_execution_with(newest) ==
    /\ log_calls < MaxLogCalls
    /\ log_calls' = log_calls + 1
    /\ LET \* an entry is known by its place in the order of the calls; its
           \* other fields take no part in what is kept
           log_entry == [call |-> log_calls + 1, query |-> "select a from t",
                         error |-> FALSE]
           appended == Append(query_logs.items, log_entry)
           n == Len(appended)
       IN  query_logs' =
                IF ~ query_logs.present THEN query_logs
                ELSE IF n > MAX_LOGGED_QUERIES
                THEN [query_logs EXCEPT !.items =
                        IF newest
                        THEN SubSeq(appended, n - MAX_LOGGED_QUERIES + 1, n)
                        ELSE SubSeq(appended, 1, MAX_LOGGED_QUERIES)]
                ELSE [query_logs EXCEPT !.items = appended]
    /\ UNCHANGED <<gate_pc, gate_query, gate_return, db_run, norm_vars>>
    /\ UNCHANGED <<graph_vars, session_vars>>

\* the trimming that keeps the oldest entries
log_query_execution_keep_oldest == log_query_execution_with(FALSE)

log_query_execution == log_query_execution_with(TRUE)

\* ConnectionManager.disconnect of Phase_1: st.session_state.query_logs = []
clear_query_logs ==
    /\ query_logs.present
    /\ query_logs.items # <<>>
    /\ query_logs' = [present |-> TRUE, items |-> <<>>]
    /\ UNCHANGED log_calls
    /\ UNCHANGED <<gate_pc, gate_query, gate_return, db_run, norm_vars>>
    /\ UNCHANGED <<graph_vars, session_vars>>

\* a session of the Streamlit application, which holds the key query_logs,
\* or a caller outside of it, whose session state does not hold the key
LogInit ==
    /\ query_logs \in {[present |-> p, items |-> <<>>] : p \in BOOLEAN}
    /\ log_calls = 0
    /\ gate_pc = "idle"
    /\ gate_query = None
    /\ gate_return = None
    /\ db_run = <<>>
    /\ NormIdle
    /\ SessionInit
    /\ GraphIdle

LogNext ==
    \/ log_query_execution
    \/ clear_query_logs

SpecLog == LogInit /\ [][LogNext]_vars

\* ------------------------------------------------------------------------
\* agents/error_analyzer.py, driven by the retry loop of the design
\* ------------------------------------------------------------------------
MaxRetriesAnalysis == "Max retries exceeded."
AnalysisFailed == "Failed to analyze the SQL error, cannot proceed with correction."

\* f"{state.get('error')}"
str_or_none(v) == IF v = Absent THEN "None" ELSE v

\* the node, giving up once the incremented counter exceeds max_retries
analyze_with_limit(max_retries) ==
    LET retries == state.retries + 1
        st == [state EXCEPT !.retries = retries]
    IN  IF retries > max_retries
        THEN Step("analyze_error",
                  [st EXCEPT
                     !.error = "Failed to correct SQL query after "
                                 \o str_int(retries - 1)
                                 \o " attempts. Last error: " \o str_or_none(state.error),
                     !.error_analysis = MaxRetriesAnalysis],
                  <<>>, <<>>)
        ELSE \/ \E suggestion \in LLMSuggestions :
                    Step("analyze_error",
                         [st EXCEPT
                            !.error_analysis =
                                IF suggestion = Absent THEN None ELSE suggestion,
                            !.error = None],
                         <<<<"analyze_error", "llm">>>>, <<>>)
             \/ \E e \in LLMExceptions :
                    Step("analyze_error", [st EXCEPT !.error = AnalysisFailed],
                         <<<<"analyze_error", "llm">>>>, <<>>)

\* the give-up test off by one:  if retries > 3
analyze_sql_error_off_by_one == analyze_with_limit(3)

analyze_sql_error == analyze_with_limit(2)

\* the resumed pipeline about to generate the query
RetryInit ==
    LET RetryStates ==
            {[initial_state(prompt) EXCEPT
                !.db_connection = "conn",
                !.schema = schema,
                !.intent_decision = "RELEVANT",
                !.intent_keywords = keywords,
                !.suggested_tables = <<"ab">>,
                !.confirmed_tables = <<"ab">>,
                !.pruned_schema = pruned_schema] :
                prompt \in Prompts, schema \in Schemas \ {""},
                keywords \in KeywordLists, pruned_schema \in PrunedSchemas}
    IN
    /\ pc = "generate_sql"
    /\ invocation = "retry"
    /\ state \in RetryStates
    /\ visited = <<"prune_columns">>
    /\ calls = <<<<"prune_columns", "llm">>>>
    /\ exchanges = <<>>
    /\ db_executed = <<>>
    /\ messages = [none |-> FALSE,
                   items |-> <<[role |-> "user", content |-> state.user_prompt]>>]
    /\ db_connected = "True"
    /\ new_prompt = None
    /\ current_graph_state =
            [none |-> FALSE, st |-> [state EXCEPT !.pruned_schema = Absent]]
    /\ asked = 1
    /\ GateIdle

RetryNext ==
    \/ Node(generate_sql_query)
    \/ Node(execute_sql_query)
    \/ Node(analyze_sql_error)
    \/ Node(format_final_output)

SpecRetry == RetryInit /\ [][RetryNext]_vars

\* ------------------------------------------------------------------------
\* Properties
\* ------------------------------------------------------------------------
Ran(node) == \E i \in 1..Len(visited) : visited[i] = node

SynthesisCount ==
    Cardinality({i \in 1..Len(calls) : calls[i] = <<"generate_sql", "llm">>})

\* C1: when every execution attempt fails, a finished run has made exactly
\* three synthesis calls and three execution attempts, and ends on the
\* max-retries error.
C1_RetryBound ==
    (pc = "END" /\ db_executed # <<>> /\ HasError(state))
        => /\ SynthesisCount = 3
           /\ Len(db_executed) = 3
           /\ startswith(state.error, "Failed to correct SQL query after")

C3_ExecutedQueriesPassTheGate ==
    \A i \in 1..Len(db_executed) :
        ~ IsViolation(safe_sql(db_executed[i], MAX_QUERY_RESULTS))

\* the gate's three violations
GateViolations == {ErrMultipleStatements, ErrOnlySelect, ErrDmlDdl}

GateAccepted == gate_pc = "returned" /\ db_run # <<>>

\* a ";" anywhere but as the last character of the trimmed text
HasInnerSemicolon(q) ==
    LET t == strip(q) IN \E i \in 1..(Len(t) - 1) : Ch(t, i) = ";"

\* C4: every accepted query is one statement: a text with a ";" anywhere
\* but at its very end is never accepted, and an accepted query holds no ";".
C4_AcceptedIsOneStatement ==
    GateAccepted =>
        /\ ~ HasInnerSemicolon(gate_query)
        /\ count(db_run[1], ";") = 0

ForbiddenKeywords ==
    {"insert", "update", "delete", "alter", "drop", "create", "replace",
     "truncate", "grant", "revoke"}

\* w stands in s as a whole word, in any letter case
HasWholeWord(s, w) ==
    LET ls == lower(s)
        n == Len(w)
    IN  \E i \in 1..(Len(s) - n + 1) :
            /\ SubSeq(ls, i, i + n - 1) = w
            /\ (i = 1 \/ ~ IsWordChar(Ch(s, i - 1)))
            /\ (i + n - 1 = Len(s) \/ ~ IsWordChar(Ch(s, i + n)))

\* some forbidden keyword stands in s as a whole word, in any letter case
HasForbiddenKeyword(s) ==
    LET ls == lower(s)
    IN  \E i \in 1..Len(s) :
            /\ (i = 1 \/ ~ IsWordChar(Ch(s, i - 1)))
            /\ \E w \in ForbiddenKeywords :
                /\ i + Len(w) - 1 <= Len(s)
                /\ SubSeq(ls, i, i + Len(w) - 1) = w
                /\ (i + Len(w) - 1 = Len(s) \/ ~ IsWordChar(Ch(s, i + Len(w))))

\* C5: a text holding a forbidden keyword as a whole word, in any case, is
\* answered with a violation and never reaches the database.
C5_ForbiddenKeywordRejected ==
    (gate_pc = "returned" /\ HasForbiddenKeyword(gate_query))
        => gate_return \in GateViolations /\ db_run = <<>>

C5_Witness ==
    /\ gate_pc = "returned"
    /\ HasWholeWord(gate_query, "drop")
    /\ ~ contains(gate_query, "DROP")
    /\ gate_return = ErrDmlDdl

HasExemptionMarker(s) == \E m \in no_limit_patterns : contains(lower(s), m)

\* one statement, beginning with SELECT, free of forbidden keywords
IsPlainSelect(q) ==
    LET t == strip(q)
    IN  /\ ~ HasInnerSemicolon(q)
        /\ startswith(lower(t), "select")
        /\ ~ HasForbiddenKeyword(q)

LimitSuffix == " LIMIT " \o str_int(MAX_QUERY_RESULTS)

\* C6: a single SELECT statement without LIMIT and without exemption marker
\* is accepted with " LIMIT <max_rows>" at its end, and the gate maps every
\* query it accepted to itself.
C6_LimitAppendedOnce ==
    gate_pc = "returned" =>
        /\ (/\ IsPlainSelect(gate_query)
            /\ ~ HasWholeWord(gate_query, "limit")
            /\ ~ HasExemptionMarker(gate_query))
                => db_run # <<>> /\ endswith(db_run[1], LimitSuffix)
        /\ db_run # <<>> => safe_sql(db_run[1], MAX_QUERY_RESULTS) = db_run[1]

C6_Witness ==
    /\ GateAccepted
    /\ ~ HasWholeWord(gate_query, "limit")
    /\ endswith(db_run[1], LimitSuffix)
    /\ ~ endswith(SubSeq(db_run[1], 1, Len(db_run[1]) - Len(LimitSuffix)), LimitSuffix)

\* C7: the checks apply in the order statement count, read-only, forbidden
\* keyword; a rejected text comes back as exactly the violation message and
\* no database call is made for it.
C7_ChecksInOrder ==
    gate_pc = "returned" =>
        LET q1 == strip(gate_query)
            q2 == strip(rstrip_semicolon(q1))
            multiple == count(q1, ";") > 1
            select == startswith(lower(q2), "select")
            forbidden == HasForbiddenKeyword(q2)
        IN  /\ multiple => gate_return = ErrMultipleStatements
            /\ (~ multiple /\ ~ select) => gate_return = ErrOnlySelect
            /\ (~ multiple /\ select /\ forbidden) => gate_return = ErrDmlDdl
            /\ (multiple \/ ~ select \/ forbidden) <=> db_run = <<>>
            /\ db_run = <<>> => gate_return \in GateViolations

C7_Witness ==
    /\ gate_pc = "returned"
    /\ gate_return = ErrOnlySelect
    /\ HasForbiddenKeyword(gate_query)
    /\ db_run = <<>>

\* C8: an accepted query that does not end in a LIMIT clause and holds an
\* exemption marker is passed on as written, with no LIMIT appended.
C8_ExemptQueryNotLimited ==
    LET q2 == strip(rstrip_semicolon(strip(gate_query)))
    IN  (GateAccepted /\ HasExemptionMarker(gate_query) /\ ~ has_limit_tail_re(q2))
            => db_run[1] = q2

C8_Witness ==
    /\ GateAccepted
    /\ gate_query = "SELECT table_name FROM INFORMATION_SCHEMA.TABLES"
    /\ db_run = <<"SELECT table_name FROM INFORMATION_SCHEMA.TABLES">>

SqlStages == {"prune_columns", "generate_sql", "execute_sql"}

\* C9: a run whose table selection succeeded stops suspended, awaiting
\* confirmation and without a final output; before the human confirms, no
\* pruning, synthesis or execution node runs.
C9_SuspendsForConfirmation ==
    /\ invocation = "initial" =>
        \A n \in SqlStages : ~ Ran(n) /\ pc # n
    /\ (pc = "END" /\ Ran("select_tables") /\ ~ HasError(state)) =>
        /\ state.needs_user_confirmation
        /\ state.final_output.keys = {}
        /\ db_executed = <<>>

C9_Witness ==
    /\ pc = "END"
    /\ invocation = "initial"
    /\ state.intent_decision = "RELEVANT"
    /\ state.needs_user_confirmation
    /\ state.suggested_tables # <<>>

EarlyStages == {"connect_to_db", "retrieve_schema", "identify_intent", "select_tables"}

\* C10: a resumed run executes none of connection, schema retrieval, intent
\* classification and table selection, and ends with a final output and
\* without suspending again.
C10_ResumeContinuesAtPruning ==
    invocation = "resume" =>
        /\ \A n \in EarlyStages : ~ Ran(n) /\ pc # n
        /\ pc = "END" =>
            /\ state.final_output.keys # {}
            /\ ~ state.needs_user_confirmation

PipelineNodes ==
    {"connect_to_db", "retrieve_schema", "identify_intent", "select_tables",
     "prune_columns", "generate_sql", "execute_sql", "format_output"}

\* C11: once an error is recorded, no later node of the run calls the
\* completion service or the database or changes sql_query, pruned_schema,
\* results or the error; the run goes on to the response composer, and the
\* response of a run whose intent is not IRRELEVANT is built from that error.
C11_ErrorShortCircuits ==
    [][(pc \in PipelineNodes /\ HasError(state)) =>
        /\ calls' = calls
        /\ db_executed' = db_executed
        /\ state'.sql_query = state.sql_query
        /\ state'.pruned_schema = state.pruned_schema
        /\ state'.results = state.results
        /\ state'.error = state.error
        /\ pc' \in PipelineNodes \cup {"END"}
        /\ pc' = "END" =>
            /\ pc = "format_output"
            /\ state.intent_decision # "IRRELEVANT" =>
                    state'.final_output.response = "An error occurred: " \o state.error
    ]_vars

C11_Witness ==
    /\ pc = "END"
    /\ startswith(state.error, "Failed to generate SQL query: ")
    /\ Ran("generate_sql") /\ Ran("execute_sql") /\ Ran("format_output")
    /\ db_executed = <<>>
    /\ state.final_output.response = "An error occurred: " \o state.error

\* C12: a failed execution with retry budget left hands control to the
\* error analyzer (not to the response composer), a successful execution
\* goes to the response composer, and query generation is entered only from
\* pruning or from the error analyzer.
C12_ExecutionErrorIsRetried ==
    [][/\ (pc = "execute_sql" /\ ~ HasError(state) /\ HasError(state')
                /\ state'.retries < 2)
            => pc' = "analyze_error"
       /\ (pc = "execute_sql" /\ ~ HasError(state') /\ db_executed' # db_executed)
            => pc' = "format_output"
       /\ (pc' = "generate_sql" /\ pc # "generate_sql")
            => pc \in {"START", "prune_columns", "analyze_error"}
    ]_vars

IntentCallMade ==
    \E i \in 1..Len(calls) : calls[i] = <<"identify_intent", "llm">>

\* the classification call raised, or answered with a decision that is
\* neither RELEVANT nor IRRELEVANT
ClassificationFailed ==
    /\ IntentCallMade
    /\ \/ startswith(state.error, "Failed to identify intent: ")
       \/ state.intent_decision \notin {"RELEVANT", "IRRELEVANT"}

\* C13: a run whose intent classification failed or answered malformed ends
\* with intent IRRELEVANT, the cause recorded in the state, no table
\* selection, synthesis or execution, and the fixed decline message.
C13_FailedClassificationDeclines ==
    (pc = "END" /\ ClassificationFailed) =>
        /\ state.intent_decision = "IRRELEVANT"
        /\ HasError(state)
        /\ \A n \in {"select_tables"} \cup SqlStages : ~ Ran(n)
        /\ db_executed = <<>>
        /\ state.final_output.response = DeclineMessage

PruningCallMade ==
    \E i \in 1..Len(calls) : calls[i] = <<"prune_columns", "llm">>

\* the pruning call raised: the fallback stored the whole schema
PruningFailed ==
    /\ PruningCallMade
    /\ Ran("prune_columns")
    /\ state.pruned_schema = state.schema

\* C15: after a failed pruning call the run still synthesizes and executes
\* a query on the unpruned schema, and its final answer is not an error
\* message about the pruning failure.
C15_PruningFailureIsNotFatal ==
    (pc = "END" /\ PruningFailed) =>
        /\ SynthesisCount >= 1
        /\ db_executed # <<>>
        /\ ~ startswith(state.final_output.response,
                        "An error occurred: Failed to prune columns")

\* what an IRRELEVANT run has at its end, but for the sql_query field
IrrelevantRunDeclines ==
    /\ ~ state.needs_user_confirmation
    /\ Ran("format_output")
    /\ \A n \in {"select_tables"} \cup SqlStages : ~ Ran(n)
    /\ SynthesisCount = 0
    /\ db_executed = <<>>
    /\ state.final_output.response = DeclineMessage

\* C14: a run with intent IRRELEVANT finishes without suspension, with no
\* query synthesized or executed, with the fixed decline message, and with
\* an empty sql_query field in its final output.
C14_IrrelevantSqlQueryEmpty ==
    (pc = "END" /\ state.intent_decision = "IRRELEVANT") =>
        /\ IrrelevantRunDeclines
        /\ \/ "sql_query" \notin state.final_output.keys
           \/ state.final_output.sql_query \in {"", None}

\* C14 (amended): as above, but the sql_query field of the final output
\* holds the placeholder text "No SQL Query Generated." and no SQL.
C14_IrrelevantSqlQueryPlaceholder ==
    (pc = "END" /\ state.intent_decision = "IRRELEVANT") =>
        /\ IrrelevantRunDeclines
        /\ "sql_query" \in state.final_output.keys
        /\ state.final_output.sql_query = "No SQL Query Generated."

C14_Witness ==
    /\ pc = "END"
    /\ invocation = "initial"
    /\ state.intent_decision = "IRRELEVANT"
    /\ ~ HasError(state)
    /\ state.final_output.response = DeclineMessage
    /\ state.final_output.sql_query = "No SQL Query Generated."

\* the branch of the composer that the state selects, first match wins
ComposerBranch(st) ==
    IF st.intent_decision = "IRRELEVANT" THEN "decline"
    ELSE IF HasError(st) THEN "error"
    ELSE IF ~ st.results.present \/ st.results.rows = <<>> THEN "no_results"
    ELSE IF is_purpose_question(st.user_prompt) /\ is_list_of_tables(st.results)
    THEN "purpose"
    ELSE "default"

\* the completion-service calls the composer made
ComposerCalls ==
    SelectSeq(calls, LAMBDA c : c[1] \in {"format_output", "format_output.purpose"})

FallbackPrefix == "Here are the results from your query:\n\n"

\* C16: the composer answers by exactly the first matching branch:
\* IRRELEVANT intent (even with an error recorded), then a recorded error,
\* then zero rows, then the purpose summary, then the default insight.
C16_ComposerPriority ==
    (pc = "END" /\ Ran("format_output")) =>
        LET branch == ComposerBranch(state)
            response == state.final_output.response
            answered == \/ response \in LLMAnswers
                        \/ startswith(response, FallbackPrefix)
        IN  /\ branch = "decline" =>
                response = DeclineMessage /\ ComposerCalls = <<>>
            /\ branch = "error" =>
                /\ response = "An error occurred: " \o state.error
                /\ ComposerCalls = <<>>
            /\ branch = "no_results" =>
                response = NoResultsMessage /\ ComposerCalls = <<>>
            /\ branch = "purpose" =>
                /\ ComposerCalls = <<<<"format_output.purpose", "llm">>>>
                /\ answered
            /\ branch = "default" =>
                /\ ComposerCalls = <<<<"format_output", "llm">>>>
                /\ answered

C16_Witness ==
    /\ pc = "END"
    /\ Ran("format_output")
    /\ state.intent_decision = "IRRELEVANT"
    /\ HasError(state)
    /\ state.final_output.response = DeclineMessage

\* the final output a finished invocation hands to its caller
ReturnedOutput ==
    IF invocation = "resume" THEN final_result(state) ELSE state.final_output

\* C17: every completed run, be it an initial run that does not suspend or
\* a resumed run, returns a final output holding the string fields response,
\* sql_query and reasoning; no run ends by an exception instead.
C17_FinalOutputShape ==
    /\ pc # "raised"
    /\ (pc = "END" /\ (invocation = "resume" \/ ~ state.needs_user_confirmation)) =>
        /\ {"response", "sql_query", "reasoning"} \subseteq ReturnedOutput.keys
        /\ \A v \in {ReturnedOutput.response, ReturnedOutput.sql_query,
                      ReturnedOutput.reasoning} : v \notin {Absent, None}

\* C19: in every state at most one of these holds: an error is recorded, an
\* execution result is present, the run awaits confirmation.
C19_AtMostOneTerminalCondition ==
    Cardinality({c \in {"error", "execution_result", "awaiting_confirmation"} :
        \/ c = "error" /\ HasError(state)
        \/ c = "execution_result" /\ state.results.present
        \/ c = "awaiting_confirmation" /\ state.needs_user_confirmation}) <= 1

\* the composer's completion call failed: it recorded the failure
ComposerCallFailed ==
    /\ "error" \in state.final_output.keys
    /\ startswith(state.final_output.error, "Failed to format final output: ")

\* text renders the table: a header line naming every column, a rule, and
\* one line per row, in row order, holding every cell of the row
RendersTable(text, results) ==
    LET lines == split(text, "\n")
    IN  /\ Len(lines) = 2 + Len(results.rows)
        /\ \A k \in 1..Len(results.columns) : contains(lines[1], results.columns[k])
        /\ \A i \in 1..Len(results.rows) :
            \A k \in 1..Len(results.rows[i]) :
                contains(lines[2 + i], results.rows[i][k])

\* C18: when the completion call of the composer fails on a non-empty
\* result, the composer still returns a final output whose response is the
\* fixed heading followed by the rendered table; an exception leaves the
\* composer only when no completion call was made.
C18_ComposerFallback ==
    /\ pc = "raised" => ComposerCalls = <<>>
    /\ (pc = "END" /\ ComposerCallFailed) =>
        LET response == state.final_output.response
        IN  /\ Len(ComposerCalls) = 1
            /\ state.results.rows # <<>>
            /\ startswith(response, FallbackPrefix)
            /\ RendersTable(SubSeq(response, Len(FallbackPrefix) + 1, Len(response)),
                            state.results)

C18_Witness ==
    /\ pc = "END"
    /\ ComposerCallFailed
    /\ ComposerCalls = <<<<"format_output", "llm">>>>
    /\ Len(state.results.rows) = 2
    /\ startswith(state.final_output.response, FallbackPrefix)

\* the cells of one printed row
DataCells(line) ==
    split(IF startswith(line, "| ") /\ endswith(line, " |")
          THEN SubSeq(line, 3, Len(line) - 2)
          ELSE line,
          " | ")

\* the rows of a printed table: the lines below the header and the rule
PrintedRows(text) ==
    IF text = "No data returned" THEN <<>>
    ELSE LET lines == split(text, "\n")
         IN  [i \in 1..(Len(lines) - 2) |-> DataCells(lines[i + 2])]

str_rows(rows) ==
    [i \in 1..Len(rows) |-> [k \in 1..Len(rows[i]) |-> rows[i][k].s]]

\* C21: for every list of tuples, normalizing its str() form gives the table
\* (same rows, same values) that normalizing the list itself gives.
C21_SerializedRoundTrip ==
    (norm_pc = "returned" /\ norm_shape = "str" /\ norm_text = list_str(norm_origin)) =>
        norm_return = format_list_result(str_rows(norm_origin), norm_query, norm_tabulate)

\* the rows of the raw result, whether it came as a list or as its str()
NormRows == IF norm_shape = "list" THEN norm_result ELSE str_rows(norm_origin)

\* the text between SELECT and FROM, as the query writes it
WrittenSelectList(query) ==
    LET u == upper(query)
        froms == {i \in 1..Len(u) : literal_end(u, i, " FROM ") # 0}
    IN  IF startswith(u, "SELECT ") /\ froms # {}
        THEN SubSeq(query, 8, (CHOOSE i \in froms : \A j \in froms : i <= j) - 1)
        ELSE ""

\* the identifiers of a select list of plain column names, as written;
\* <<>> for any other select list
WrittenNames(query) ==
    LET entries == split(WrittenSelectList(query), ",")
        names == [k \in 1..Len(entries) |-> strip(entries[k])]
    IN  IF \A k \in 1..Len(names) :
                names[k] # "" /\ \A i \in 1..Len(names[k]) : IsWordChar(Ch(names[k], i))
        THEN names ELSE <<>>

\* the column names a printed table shows
HeaderCells(text) == DataCells(split(text, "\n")[1])

\* C22: when the select list is plain column names, as many as a row has
\* values, the columns of the table are those identifiers exactly as the
\* query writes them, in order.
C22_PlainNamesAsWritten ==
    (/\ norm_pc = "returned"
     /\ NormRows # <<>>
     /\ WrittenNames(norm_query) # <<>>
     /\ Len(WrittenNames(norm_query)) = Len(NormRows[1]))
        => HeaderCells(norm_return) = WrittenNames(norm_query)

\* C23: in every table the executor stores, each row has as many values as
\* the table has columns.
C23_RowArityEqualsColumns ==
    state.results.present =>
        \A i \in 1..Len(state.results.rows) :
            Len(state.results.rows[i]) = Len(state.results.columns)

\* C24: once an error message is recorded, every later step before the
\* composer leaves a non-empty message in error or in error_analysis.
C24_ErrorLeavesTrace ==
    [][(HasError(state) /\ pc \in PipelineNodes \cup {"analyze_error"}) =>
            (Truthy(state'.error) \/ Truthy(state'.error_analysis))]_vars

\* the fields each call site requires in the response
RequiredFields ==
    [select_tables |-> {"suggested_tables"}, generate_sql |-> {"sql_query", "reasoning"}]

LacksRequiredField(x) == ~ x.failed /\ RequiredFields[x.site] \ x.fields # {}

\* C25: when a response of the table selector or of the query generator
\* parses but lacks a required field, the run records an error: it neither
\* suspends for confirmation nor executes a query afterwards.
C25_MissingFieldIsFailure ==
    \A i \in 1..Len(exchanges) :
        LacksRequiredField(exchanges[i]) =>
            /\ HasError(state)
            /\ ~ state.needs_user_confirmation
            /\ exchanges[i].site = "generate_sql" => db_executed = <<>>

Suspended ==
    /\ state.needs_user_confirmation
    /\ state.final_output.keys = {}
    /\ visited # <<>> /\ visited[Len(visited)] = "select_tables"

Finished == pc = "END" /\ state.final_output.keys # {}

\* C26: an invocation of the pipeline ends either suspended at the
\* confirmation checkpoint, right after table selection and without a final
\* output, or finished with a final output, and never both.
C26_SuspendedOrFinished ==
    pc \in {"END", "raised"} => (Suspended # Finished)

DiagnosisCalls ==
    Cardinality({i \in 1..Len(calls) : calls[i] = <<"analyze_error", "llm">>})

C28_HintInContext ==
    [][(pc = "generate_sql" /\ ~ HasError(state) /\ Truthy(state.error_analysis)) =>
        LET sent == exchanges'[Len(exchanges')].context
            Holds(text) == \E k \in 1..Len(sent) : contains(sent[k], text)
        IN  /\ Len(exchanges') = Len(exchanges) + 1
            /\ Holds(state.user_prompt)
            /\ Holds(state.pruned_schema)
            /\ Holds(state.error_analysis)]_vars

\* the number of items of a select list: one more than its commas outside
\* every pair of parentheses
TopLevelItems(list) ==
    LET Depth(i) == Cardinality({j \in 1..i : Ch(list, j) = "("})
                        - Cardinality({j \in 1..i : Ch(list, j) = ")"})
    IN  1 + Cardinality({i \in 1..Len(list) : Ch(list, i) = "," /\ Depth(i) = 0})

PositionalNames(n) == [k \in 1..n |-> "Column_" \o str_int(k)]

\* C29: the select list is split at its top-level commas only, so a select
\* list other than * with as many top-level items as a row has values
\* names the columns, and the positional names are not used.
C29_TopLevelSplit ==
    (/\ norm_pc = "returned"
     /\ norm_shape = "list"
     /\ norm_result # <<>>
     /\ strip(WrittenSelectList(norm_query)) \notin {"", "*"}
     /\ TopLevelItems(WrittenSelectList(norm_query)) = Len(norm_result[1]))
        => HeaderCells(norm_return) # PositionalNames(Len(norm_result[1]))

\* texts that denote an empty collection
EmptyCollections == {"[]", "{}"}
NoDataResults == {"No data returned", "No valid data found"}

\* C30: a str raw result goes through the literal parse, the JSON parse and
\* the line-wise split in this order, the first that succeeds deciding the
\* result, and a non-empty text never becomes a "no data" result.
C30_NonEmptyTextKeepsData ==
    (norm_pc = "returned" /\ norm_shape = "str") =>
        LET literal == literal_eval(clean_result_string(norm_text))
        IN  /\ (startswith(norm_text, "[") /\ endswith(norm_text, "]")
                    /\ literal.ok /\ literal.rows # <<>>)
                => norm_return =
                        format_list_result(literal.rows, norm_query, norm_tabulate)
            /\ (norm_text # "" /\ norm_text \notin EmptyCollections)
                => norm_return \notin NoDataResults

\* the nodes that read state['db_connection']
HandleUsers == {"retrieve_schema", "execute_sql"}

C32_EveryPathReachesEnd ==
    /\ [](\A i, j \in 1..Len(visited) : visited[i] = visited[j] => i = j)
    /\ (pc = "START") ~> (pc = "END")

MessagesOf(role) ==
    Cardinality({i \in 1..Len(messages.items) : messages.items[i].role = role})

\* the chat shows its input box: no prompt waits to be processed, no
\* confirmation form is shown and no pipeline runs
AwaitingQuestion ==
    /\ pc = "idle"
    /\ ChatRenders
    /\ new_prompt = None
    /\ ~ PendingConfirmation

\* C33: every submitted question gets exactly one assistant message: the
\* history never holds more assistant messages than user messages, and
\* whenever the chat is ready for the next question every question asked
\* so far has its assistant message.
C33_EveryQuestionAnswered ==
    /\ MessagesOf("assistant") <= MessagesOf("user")
    /\ AwaitingQuestion => MessagesOf("assistant") = MessagesOf("user")

\* C34: a run that reaches the response composer with a recorded error and
\* an intent other than IRRELEVANT ends with the error field of its final
\* output set.
C34_ErrorFieldTellsFailure ==
    (pc = "END" /\ Ran("format_output") /\ HasError(state)
            /\ state.intent_decision # "IRRELEVANT") =>
        /\ "error" \in state.final_output.keys
        /\ Truthy(state.final_output.error)

\* C35: the fixed "no results" response is given only by a run that passed a
\* query to the database, recorded no error and got zero rows back.
C35_NoResultsMeansEmptyExecution ==
    (pc = "END" /\ Ran("format_output")
            /\ state.final_output.response = NoResultsMessage) =>
        /\ Ran("execute_sql")
        /\ db_executed # <<>>
        /\ ~ HasError(state)
        /\ state.results.present /\ state.results.rows = <<>>

\* the places of s where the word LIMIT stands, in any letter case
LimitWords(s) ==
    LET ls == lower(s)
    IN  {i \in 1..(Len(s) - 4) :
            /\ SubSeq(ls, i, i + 4) = "limit"
            /\ (i = 1 \/ ~ IsWordChar(Ch(s, i - 1)))
            /\ (i + 4 = Len(s) \/ ~ IsWordChar(Ch(s, i + 5)))}

\* C36: an accepted query that holds one LIMIT clause, at its end or
\* followed by another clause such as OFFSET, reaches the database with
\* exactly one LIMIT clause.
C36_LimitNotDoubled ==
    (GateAccepted /\ Cardinality(LimitWords(gate_query)) = 1) =>
        Cardinality(LimitWords(db_run[1])) = 1

\* the schema text prune_columns puts into its prompt
PruningText ==
    schema_for_pruning(split(state.schema, "CREATE TABLE"), state.confirmed_tables)

\* the CREATE TABLE statement of the k-th table of the schema
TableDefinition(k) ==
    "CREATE TABLE" \o split(state.schema, "CREATE TABLE")[k + 1]

\* C37: when the pruning call is made, the schema text of its prompt holds
\* the CREATE TABLE statement of every confirmed table and of no other
\* table; when no confirmed table is found the node records an error and
\* makes no call.
C37_PruningSeesConfirmedTables ==
    (Ran("prune_columns") /\ invocation = "resume") =>
        LET tables == all_tables(state.schema)
            confirmed == {state.confirmed_tables[i] :
                            i \in 1..Len(state.confirmed_tables)}
        IN  /\ PruningCallMade =>
                \A k \in 1..Len(tables) :
                    contains(PruningText, TableDefinition(k))
                        <=> tables[k] \in confirmed
            /\ (~ PruningCallMade /\ ~ startswith(state.error, "Failed to"))
                    => /\ PruningText = ""
                       /\ state.error = "Could not find schema for confirmed tables."

\* C38: a disconnect leaves the session with its initial defaults: an empty
\* message list, db_connected false, no graph state and no pending prompt.
C38_DisconnectRestoresDefaults ==
    [][(db_connected = "True" /\ db_connected' # "True") =>
        /\ messages' = [none |-> FALSE, items |-> <<>>]
        /\ db_connected' = "False"
        /\ current_graph_state' = NoGraphState
        /\ new_prompt' = None
    ]_vars

\* C39: after any sequence of log_query_execution calls the log holds at
\* most 50 entries, and they are the entries of the most recent calls, in
\* the order of the calls.
C39_LogKeepsLatestFifty ==
    /\ Len(query_logs.items) <= 50
    /\ \A i \in 1..Len(query_logs.items) :
            query_logs.items[i].call = log_calls - Len(query_logs.items) + i

C39_Witness ==
    /\ log_calls = 52
    /\ Len(query_logs.items) = 50
    /\ query_logs.items[1].call = 3
    /\ query_logs.items[50].call = 52

====
